---- MODULE Spec2Model ----
(***************************************************************************)
(* The agent-to-agent message bus of src/agents/agent_protocol.py          *)
(* (class AgentProtocol): the registry, synchronous delivery, the retry    *)
(* policy, lifecycle broadcasts, the heartbeat monitor and the cleanup     *)
(* task.                                                                   *)
(*                                                                         *)
(* Every public method takes self._lock (a re-entrant lock) for its whole  *)
(* body, handler invocations included.  One thread at a time therefore     *)
(* runs inside the protocol; `stack` is the call stack of that thread and  *)
(* the lock is free exactly when it is empty.  A handler runs in several   *)
(* steps: it may call send_message re-entrantly before it returns or       *)
(* raises.                                                                 *)
(***************************************************************************)
EXTENDS Integers, Sequences, FiniteSets, TLC

VARIABLES
    now,                \* datetime.now()
    registered_agents,  \* self.registered_agents: name -> AgentRegistration
    msgs,               \* the AgentMessage objects constructed so far, by id
    message_history,    \* self.message_history (message ids)
    failed_messages,    \* self.failed_messages (message ids)
    retry_threads,      \* the started retry_later threads that have not run yet
    stack,              \* call stack of the thread that holds self._lock
    log,                \* per message: what send_message and the deliveries did
    last_reject         \* the send_message call just made, if it failed validation

\* the worker agents of src/agents (ranking_agent.py, comparison_agent.py,
\* communication_agent.py) and the collaborators they write to
VARIABLES
    score_result,       \* the comparison result given to _calculate_enhanced_score
    score_returned,     \* what that call returned, once it has
    rankings,           \* the rows of the rankings table
    rank_call,          \* the last rank_applications call: its input, the
                        \* table it found, what failed and what it returned
    compare_call,       \* the last compare_job_applications call: its input,
                        \* what the database and the oracle gave, its result
    payloads,           \* per message of msgs: its message_type and payload
    handlers,           \* per frame of stack: where the receive_message of
                        \* the worker is, and the result it has computed
    emails,             \* what _send_email was called with, in order
    pipeline_run        \* the last call made from outside: a REQUEST sent
                        \* through the bus or a process_task, and the
                        \* rankings and emails it found

bus_vars == <<now, registered_agents, msgs, message_history, failed_messages,
              retry_threads, stack, log, last_reject>>

worker_vars == <<score_result, score_returned, rankings, rank_call,
                 compare_call, payloads, handlers, emails, pipeline_run>>

vars == <<bus_vars, worker_vars>>

-----------------------------------------------------------------------------
(* Bounds of the model *)

\* the clock is read in steps of TickStep seconds (the period of the
\* background loops); a call into the protocol takes less than one step
TickStep == 30
\* Spec: the clock advances at most MaxTicks times, and at most MaxMsgs
\* messages pass validation
MaxTicks == 3
MaxMsgs == 1
\* SpecNested: the same for the runs with re-entrant deliveries
NestedMaxTicks == 1
NestedMaxMsgs == 2

(* Program constants *)

\* settings.A2A_MESSAGE_TIMEOUT, seconds
A2A_MESSAGE_TIMEOUT == 30
\* settings.A2A_MAX_RETRIES
A2A_MAX_RETRIES == 3
\* the cap of the backoff in _handle_delivery_failure
MAX_RETRY_DELAY == 5
\* _cleanup_expired_messages: the history is cut when longer than this ...
HISTORY_LIMIT == 1000
\* ... to its last HISTORY_KEEP entries
HISTORY_KEEP == 500
\* failed messages are kept for one hour (seconds)
FAILED_RETENTION == 3600

\* the agent names of SpecRegistry, of Spec and of SpecNested
Agents == {"a1", "a2", "a3"}
BusAgents == {"a1"}
NestedAgents == {"a1", "a2"}

\* class AgentStatus
AgentStatus == {"ACTIVE", "BUSY", "INACTIVE", "ERROR"}

\* an Optional argument: None, or Some(value)
None == <<>>
Some(v) == <<v>>

\* the capabilities argument of register_agent; None is its default
CapabilityInputs == {None, Some(<<"compare">>), Some(<<"compare", "rank">>)}

Min(a, b) == IF a < b THEN a ELSE b

Last(s) == s[Len(s)]
Front(s) == SubSeq(s, 1, Len(s) - 1)

-----------------------------------------------------------------------------
(* AgentMessage *)

\* AgentMessage.__post_init__: a missing expires_at is timestamp + timeout
AgentMessage(sender, receiver, payload_is_dict, expires_at) ==
    [sender |-> sender, receiver |-> receiver,
     payload_is_dict |-> payload_is_dict,
     timestamp |-> now,
     retry_count |-> 0,
     expires_at |-> IF expires_at = None THEN now + A2A_MESSAGE_TIMEOUT
                    ELSE expires_at[1]]

\* AgentMessage.is_expired
is_expired(m) == now > m.expires_at

\* _validate_message without its expiry test
validate_message_unexpiring(m) ==
    /\ m.sender # "" /\ m.receiver # ""
    /\ m.payload_is_dict

\* _validate_message without its payload test
validate_message_any_payload(m) ==
    /\ m.sender # "" /\ m.receiver # ""
    /\ ~is_expired(m)

\* AgentProtocol._validate_message
validate_message(m) ==
    /\ m.sender # "" /\ m.receiver # ""
    /\ ~is_expired(m)
    /\ m.payload_is_dict

\* AgentRegistration.is_alive
is_alive(reg) == now - reg.last_heartbeat < A2A_MESSAGE_TIMEOUT * 2

\* AgentProtocol.get_agent_capabilities
get_agent_capabilities(agent_name) ==
    IF agent_name \in DOMAIN registered_agents
    THEN registered_agents[agent_name].capabilities
    ELSE <<>>

\* the backoff without its cap
RetryDelay_uncapped(retry_count) == 2 ^ retry_count

\* the backoff of _handle_delivery_failure, from the incremented retry_count
RetryDelay(retry_count) == Min(2 ^ retry_count, MAX_RETRY_DELAY)

-----------------------------------------------------------------------------
(* Inputs *)

\* senders of calls made from outside any handler ("" is a missing sender)
ExtSenders == {"", "cli"}
\* the expires_at argument: the default, or a time already past
ExpiryInputs == {None, Some(now - 1)}

\* the messages a caller named by `senders` may construct and send now to
\* a receiver of `names` or to none ("" is a missing receiver)
MessageInputs(senders, names) ==
    { AgentMessage(s, r, p, e) :
        s \in senders, r \in names \cup {""}, p \in BOOLEAN, e \in ExpiryInputs }

\* those with a sender, a receiver, a dict payload and the default expiry
WellFormedInputs(senders, names) ==
    { AgentMessage(s, r, TRUE, None) : s \in senders \ {""}, r \in names }

-----------------------------------------------------------------------------
(* Call stack of the thread inside the protocol *)

LockFree == stack = <<>>

\* a frame of _deliver_message_sync while the receiver's handler runs;
\* msg = 0 is the event message of a broadcast, via is the caller
DeliverFrame(msg, receiver, old_status, via) ==
    [op |-> "deliver", msg |-> msg, receiver |-> receiver,
     old_status |-> old_status, via |-> via]

\* a frame of _broadcast_agent_event: the loop over registered_agents.items();
\* pending are the entries not visited yet, targets and invoked record which
\* recipients were ACTIVE when the loop began and whose handlers it called,
\* raised those whose handler raised, replaced whether the call that
\* broadcasts overwrote a registration
BroadcastFrame(agent_name, event_type, keys, targets, replaced) ==
    [op |-> "broadcast", agent_name |-> agent_name, event_type |-> event_type,
     pending |-> keys, targets |-> targets, invoked |-> {}, raised |-> {},
     replaced |-> replaced]

InHandler == stack # <<>> /\ Last(stack).op = "deliver"
InBroadcast == stack # <<>> /\ Last(stack).op = "broadcast"

\* the code that may call send_message now: an outside caller when the lock
\* is free, or the handler that is running (the agents' receive_message
\* sends from its REQUEST branch; handle_notification never sends)
MaySend ==
    \/ LockFree
    \/ InHandler /\ Last(stack).via # "broadcast"

SendersNow == IF LockFree THEN ExtSenders ELSE {Last(stack).receiver}

StatusOf(name) ==
    IF name \in DOMAIN registered_agents
    THEN registered_agents[name].status ELSE "unregistered"

NewLog(m) ==
    [ret |-> "none", first |-> "none", calls |-> 0, delivered |-> 0,
     delays |-> <<>>, archived |-> 0]

\* why _validate_message refuses m, in the order of its checks
Defect(m) ==
    IF m.sender = "" \/ m.receiver = "" THEN "missing"
    ELSE IF is_expired(m) THEN "expired"
    ELSE "payload"

NoReject == [why |-> "none", returned |-> "none", rcv |-> "none"]


\* no worker agent has been called
WorkersIdle ==
    /\ score_result = None
    /\ score_returned = None
    /\ rankings = {}
    /\ rank_call = None
    /\ compare_call = None
    /\ payloads = <<>>
    /\ handlers = <<>>
    /\ emails = <<>>
    /\ pipeline_run = None

-----------------------------------------------------------------------------
Init ==
    /\ now = 0
    /\ registered_agents = [a \in {} |-> 0]
    /\ msgs = <<>>
    /\ message_history = <<>>
    /\ failed_messages = <<>>
    /\ retry_threads = {}
    /\ stack = <<>>
    /\ log = <<>>
    /\ last_reject = NoReject
    /\ WorkersIdle

\* time passes, one period of the background loops at a time; a call into
\* the protocol, its handlers included, is over within the period it began in
Tick(max_ticks) ==
    /\ LockFree
    /\ now + TickStep <= max_ticks * TickStep
    /\ now' = now + TickStep
    /\ last_reject' = NoReject
    /\ UNCHANGED <<registered_agents, msgs, message_history, failed_messages,
                   retry_threads, stack, log>>

\* what send_message returns after its delivery attempt
send_return(success) == IF success THEN "true" ELSE "false"

\* send_message reporting the outcome of whichever attempt ended last
caller_result_eventual(via, success, ret) == send_return(success)

\* what the caller of send_message has got once a delivery attempt made by
\* `via` ends: send_message returns the outcome of its own attempt, and
\* retry_later drops the outcome of the attempt it makes
caller_result(via, success, ret) ==
    IF via = "send" THEN send_return(success) ELSE ret

\* a failure that is not archived
archive_skip(failed, id) == failed

\* self.failed_messages.append(message)
archive(failed, id) == Append(failed, id)

\* the test with <= for <
may_retry_inclusive(m) == m.retry_count <= A2A_MAX_RETRIES

\* the test of _handle_delivery_failure: another retry is allowed
may_retry(m) == m.retry_count < A2A_MAX_RETRIES

\* _handle_delivery_failure run without the lock by two threads for the same
\* failure: both pass the test, both count it and both start a retry
handle_delivery_failure_unlocked(id, threads, lg) ==
    IF may_retry(msgs[id])
    THEN LET rc == msgs[id].retry_count + 1
         IN /\ msgs' = [msgs EXCEPT ![id].retry_count = rc + 1]
            /\ retry_threads' = threads \cup
                   {[msg |-> id, delay |-> RetryDelay(c),
                     wake |-> now + RetryDelay(c)] : c \in {rc, rc + 1}}
            /\ log' = [lg EXCEPT ![id].delays =
                           @ \o <<RetryDelay(rc), RetryDelay(rc + 1)>>]
            /\ UNCHANGED failed_messages
    ELSE /\ failed_messages' = archive(failed_messages, id)
         /\ retry_threads' = threads
         /\ log' = [lg EXCEPT ![id].archived = @ + 1]
         /\ UNCHANGED msgs

\* _handle_delivery_failure(message), given the retry threads and the log as
\* the caller leaves them
handle_delivery_failure(id, threads, lg) ==
    IF may_retry(msgs[id])
    THEN LET rc == msgs[id].retry_count + 1
             retry_delay == RetryDelay(rc)
         IN /\ msgs' = [msgs EXCEPT ![id].retry_count = rc]
            /\ retry_threads' = threads \cup
                   {[msg |-> id, delay |-> retry_delay, wake |-> now + retry_delay]}
            /\ log' = [lg EXCEPT ![id].delays = Append(@, retry_delay)]
            /\ UNCHANGED failed_messages
    ELSE /\ failed_messages' = archive(failed_messages, id)
         /\ retry_threads' = threads
         /\ log' = [lg EXCEPT ![id].archived = @ + 1]
         /\ UNCHANGED msgs

\* send_message(message), up to the handler's invocation
send_message(m, max_msgs) ==
    LET id == Len(msgs) + 1 IN
    /\ MaySend
    /\ IF ~validate_message(m)
       THEN /\ last_reject' = [why |-> Defect(m), returned |-> send_return(FALSE),
                               rcv |-> StatusOf(m.receiver)]
            /\ UNCHANGED <<registered_agents, msgs, message_history, failed_messages,
                           retry_threads, stack, log>>
       ELSE IF m.receiver \notin DOMAIN registered_agents
       THEN /\ id <= max_msgs
            /\ msgs' = Append(msgs, m)
            /\ last_reject' = NoReject
            /\ failed_messages' = archive(failed_messages, id)
            /\ log' = Append(log, [NewLog(m) EXCEPT !.ret = send_return(FALSE),
                                      !.first = "noreceiver", !.archived = 1])
            /\ UNCHANGED <<registered_agents, message_history, retry_threads, stack>>
       ELSE /\ id <= max_msgs
            /\ msgs' = Append(msgs, m)
            /\ last_reject' = NoReject
            /\ message_history' = Append(message_history, id)
            /\ registered_agents' =
                   [registered_agents EXCEPT ![m.receiver].status = "BUSY"]
            /\ stack' = Append(stack, DeliverFrame(id, m.receiver,
                                   registered_agents[m.receiver].status, "send"))
            /\ log' = Append(log, [NewLog(m) EXCEPT !.calls = 1])
            /\ UNCHANGED <<failed_messages, retry_threads>>
    /\ UNCHANGED now

\* send_message is called with any message of MessageInputs
Send(names, max_msgs) ==
    MaySend /\ \E m \in MessageInputs(SendersNow, names) : send_message(m, max_msgs)

\* send_message is called with a well-formed message
SendWellFormed(names, max_msgs) ==
    MaySend /\ \E m \in WellFormedInputs(SendersNow, names) : send_message(m, max_msgs)

\* a delivery that leaves its receiver ACTIVE whatever it was before
restored_status_active(f) == "ACTIVE"

\* a delivery that leaves its receiver as the handler had it
restored_status_busy(f) == "BUSY"

\* the status _deliver_message_sync writes when the handler has returned
restored_status(f) == f.old_status

\* the running handler returns normally
HandlerReturn ==
    /\ last_reject' = NoReject
    /\ InHandler
    /\ LET f == Last(stack) IN
       /\ registered_agents' =
              [registered_agents EXCEPT ![f.receiver].status = restored_status(f)]
       /\ stack' = Front(stack)
       /\ log' = IF f.msg = 0 THEN log
                 ELSE [log EXCEPT ![f.msg].delivered = @ + 1,
                                  ![f.msg].ret = caller_result(f.via, TRUE, @),
                                  ![f.msg].first = IF f.via = "send" THEN "ok" ELSE @]
    /\ UNCHANGED <<now, msgs, message_history, failed_messages, retry_threads>>

\* the running handler raises
HandlerRaise ==
    /\ last_reject' = NoReject
    /\ InHandler
    /\ LET f == Last(stack)
           regs == [registered_agents EXCEPT ![f.receiver].status = "ERROR"]
       IN
       /\ registered_agents' = regs
       /\ IF f.via = "broadcast"
          THEN /\ stack' = [Front(stack) EXCEPT ![Len(stack) - 1].raised = @ \cup {f.receiver}]
               /\ UNCHANGED <<msgs, failed_messages, retry_threads, log>>
          ELSE /\ stack' = Front(stack)
               /\ handle_delivery_failure(f.msg, retry_threads,
                      [log EXCEPT ![f.msg].ret = caller_result(f.via, FALSE, @),
                                  ![f.msg].first = IF f.via = "send" THEN "raised" ELSE @])
    /\ UNCHANGED <<now, message_history>>

\* a retry_later thread wakes after its sleep and takes the lock
RetryFire ==
    /\ last_reject' = NoReject
    /\ LockFree
    /\ \E t \in retry_threads :
        /\ now >= t.wake
        /\ LET r == msgs[t.msg].receiver IN
           IF r \in DOMAIN registered_agents
           THEN /\ registered_agents' = [registered_agents EXCEPT ![r].status = "BUSY"]
                /\ stack' = <<DeliverFrame(t.msg, r, registered_agents[r].status, "retry")>>
                /\ retry_threads' = retry_threads \ {t}
                /\ log' = [log EXCEPT ![t.msg].calls = @ + 1]
                /\ UNCHANGED <<msgs, failed_messages>>
           ELSE \* registered_agents[message.receiver] raises KeyError
                /\ handle_delivery_failure(t.msg, retry_threads \ {t}, log)
                /\ UNCHANGED <<registered_agents, stack>>
    /\ UNCHANGED <<now, message_history>>

-----------------------------------------------------------------------------
(* Registry *)

\* the AgentRegistration register_agent constructs
AgentRegistration(capabilities) ==
    [status |-> "ACTIVE",
     capabilities |-> IF capabilities = None THEN <<>> ELSE capabilities[1],
     last_heartbeat |-> now]

ActiveOthers(regs, agent_name) ==
    {r \in DOMAIN regs \ {agent_name} : regs[r].status = "ACTIVE"}

\* a registration that keeps the entry of a name already registered
register_agent_keep(agent_name, capabilities) ==
    LET regs == [a \in DOMAIN registered_agents \cup {agent_name} |->
                    IF a \in DOMAIN registered_agents THEN registered_agents[a]
                    ELSE AgentRegistration(capabilities)]
    IN
    /\ last_reject' = NoReject
    /\ LockFree
    /\ registered_agents' = regs
    /\ stack' = <<BroadcastFrame(agent_name, "agent_registered", DOMAIN regs,
                                 ActiveOthers(regs, agent_name),
                                 agent_name \in DOMAIN registered_agents)>>
    /\ UNCHANGED <<now, msgs, message_history, failed_messages, retry_threads, log>>

\* AgentProtocol.register_agent, up to the first iteration of its broadcast
register_agent(agent_name, capabilities) ==
    LET regs == [a \in DOMAIN registered_agents \cup {agent_name} |->
                    IF a = agent_name THEN AgentRegistration(capabilities)
                    ELSE registered_agents[a]]
    IN
    /\ last_reject' = NoReject
    /\ LockFree
    /\ registered_agents' = regs
    /\ stack' = <<BroadcastFrame(agent_name, "agent_registered", DOMAIN regs,
                                 ActiveOthers(regs, agent_name),
                                 agent_name \in DOMAIN registered_agents)>>
    /\ UNCHANGED <<now, msgs, message_history, failed_messages, retry_threads, log>>

Register(names, capability_inputs) ==
    \E a \in names, c \in capability_inputs : register_agent(a, c)

\* AgentProtocol.unregister_agent, up to the first iteration of its broadcast
unregister_agent(agent_name) ==
    LET regs == [a \in DOMAIN registered_agents \ {agent_name} |-> registered_agents[a]]
    IN
    /\ last_reject' = NoReject
    /\ LockFree
    /\ IF agent_name \in DOMAIN registered_agents
       THEN /\ registered_agents' = regs
            /\ stack' = <<BroadcastFrame(agent_name, "agent_unregistered", DOMAIN regs,
                                         ActiveOthers(regs, agent_name), FALSE)>>
       ELSE UNCHANGED <<registered_agents, stack>>
    /\ UNCHANGED <<now, msgs, message_history, failed_messages, retry_threads, log>>

Unregister(names) == \E a \in names : unregister_agent(a)

\* a broadcast loop that looks at no status
is_recipient_any(f, reg_name) == reg_name # f.agent_name

\* whether the broadcast loop delivers the event to entry reg_name
is_recipient(f, reg_name) ==
    reg_name # f.agent_name /\ registered_agents[reg_name].status = "ACTIVE"

\* one iteration of the loop of _broadcast_agent_event (the dict is visited
\* in insertion order, which the model does not track: every order is taken)
BroadcastStep ==
    /\ last_reject' = NoReject
    /\ InBroadcast
    /\ LET f == Last(stack) IN
       \E r \in f.pending :
          IF is_recipient(f, r)
          THEN /\ registered_agents' = [registered_agents EXCEPT ![r].status = "BUSY"]
               /\ stack' = Append([stack EXCEPT ![Len(stack)].pending = @ \ {r},
                                                ![Len(stack)].invoked = @ \cup {r}],
                                  DeliverFrame(0, r, registered_agents[r].status, "broadcast"))
          ELSE /\ stack' = [stack EXCEPT ![Len(stack)].pending = @ \ {r}]
               /\ UNCHANGED registered_agents
    /\ UNCHANGED <<now, msgs, message_history, failed_messages, retry_threads, log>>

\* the loop ends; register_agent / unregister_agent returns
BroadcastDone ==
    /\ last_reject' = NoReject
    /\ InBroadcast
    /\ Last(stack).pending = {}
    /\ stack' = Front(stack)
    /\ UNCHANGED <<now, registered_agents, msgs, message_history, failed_messages,
                   retry_threads, log>>

\* a heartbeat that stamps the time and leaves the status alone
send_heartbeat_stamp_only(agent_name) ==
    /\ last_reject' = NoReject
    /\ LockFree
    /\ IF agent_name \in DOMAIN registered_agents
       THEN registered_agents' =
              [registered_agents EXCEPT ![agent_name].last_heartbeat = now]
       ELSE UNCHANGED registered_agents
    /\ UNCHANGED <<now, msgs, message_history, failed_messages, retry_threads, stack, log>>

\* AgentProtocol.send_heartbeat
send_heartbeat(agent_name) ==
    /\ last_reject' = NoReject
    /\ LockFree
    /\ IF agent_name \in DOMAIN registered_agents
       THEN registered_agents' =
              [registered_agents EXCEPT
                 ![agent_name].last_heartbeat = now,
                 ![agent_name].status = IF @ = "INACTIVE" THEN "ACTIVE" ELSE @]
       ELSE UNCHANGED registered_agents
    /\ UNCHANGED <<now, msgs, message_history, failed_messages, retry_threads, stack, log>>

Heartbeat(names) == \E a \in names : send_heartbeat(a)

\* one pass of the loop of _monitor_agent_heartbeats
monitor_agent_heartbeats ==
    /\ last_reject' = NoReject
    /\ LockFree
    /\ registered_agents' =
         [a \in DOMAIN registered_agents |->
            IF ~is_alive(registered_agents[a]) /\ registered_agents[a].status = "ACTIVE"
            THEN [registered_agents[a] EXCEPT !.status = "INACTIVE"]
            ELSE registered_agents[a]]
    /\ UNCHANGED <<now, msgs, message_history, failed_messages, retry_threads, stack, log>>

\* a cut of the history that keeps its oldest entries
KeepFirst(s, n) == SubSeq(s, 1, n)

\* self.message_history[-n:]
KeepLast(s, n) == SubSeq(s, Len(s) - n + 1, Len(s))

\* one pass of the loop of _cleanup_expired_messages
cleanup_expired_messages ==
    /\ last_reject' = NoReject
    /\ LockFree
    /\ message_history' = IF Len(message_history) > HISTORY_LIMIT
                          THEN KeepLast(message_history, HISTORY_KEEP)
                          ELSE message_history
    /\ failed_messages' = SelectSeq(failed_messages,
                             LAMBDA id : msgs[id].timestamp >= now - FAILED_RETENTION)
    /\ UNCHANGED <<now, registered_agents, msgs, retry_threads, stack, log>>

-----------------------------------------------------------------------------
(* The bus: one message and its retries through time, with every malformed
   or expired message in between, and the whole lifecycle of its receiver *)
Next ==
    \/ Tick(MaxTicks) /\ UNCHANGED worker_vars
    \/ Send(BusAgents, MaxMsgs) /\ UNCHANGED worker_vars
    \/ HandlerReturn /\ UNCHANGED worker_vars
    \/ HandlerRaise /\ UNCHANGED worker_vars
    \/ RetryFire /\ UNCHANGED worker_vars
    \/ Register(BusAgents, {None}) /\ UNCHANGED worker_vars
    \/ Unregister(BusAgents) /\ UNCHANGED worker_vars
    \/ BroadcastStep /\ UNCHANGED worker_vars
    \/ BroadcastDone /\ UNCHANGED worker_vars
    \/ Heartbeat(BusAgents) /\ UNCHANGED worker_vars
    \/ monitor_agent_heartbeats /\ UNCHANGED worker_vars
    \/ cleanup_expired_messages /\ UNCHANGED worker_vars

Spec == Init /\ [][Next]_vars

(* Re-entrant deliveries: handlers that send while they run, between two
   agents that register and receive each other's lifecycle events *)
NextNested ==
    \/ Tick(NestedMaxTicks) /\ UNCHANGED worker_vars
    \/ SendWellFormed(NestedAgents, NestedMaxMsgs) /\ UNCHANGED worker_vars
    \/ HandlerReturn /\ UNCHANGED worker_vars
    \/ HandlerRaise /\ UNCHANGED worker_vars
    \/ RetryFire /\ UNCHANGED worker_vars
    \/ Register(NestedAgents, {None}) /\ UNCHANGED worker_vars
    \/ BroadcastStep /\ UNCHANGED worker_vars
    \/ BroadcastDone /\ UNCHANGED worker_vars

SpecNested == Init /\ [][NextNested]_vars

(* The registry: the lifecycle of the agents of Agents, with every
   capability list, their broadcasts and the monitor; nothing is sent *)
NextRegistry ==
    \/ Tick(MaxTicks) /\ UNCHANGED worker_vars
    \/ Register(Agents, CapabilityInputs) /\ UNCHANGED worker_vars
    \/ Unregister(Agents) /\ UNCHANGED worker_vars
    \/ BroadcastStep /\ UNCHANGED worker_vars
    \/ BroadcastDone /\ UNCHANGED worker_vars
    \/ HandlerReturn /\ UNCHANGED worker_vars
    \/ HandlerRaise /\ UNCHANGED worker_vars
    \/ Heartbeat(Agents) /\ UNCHANGED worker_vars
    \/ monitor_agent_heartbeats /\ UNCHANGED worker_vars

SpecRegistry == Init /\ [][NextRegistry]_vars
-----------------------------------------------------------------------------
(* Properties of send_message and the retry policy, under Spec *)

\* C1: send_message returns true exactly when its own, first delivery attempt
\* succeeded (the receiver was registered and its handler returned normally
\* during the call). A message whose first attempt failed has returned false,
\* and that stays so when a retry scheduled for it later delivers it. The
\* call has not returned exactly while its own attempt is on the stack.
C1_ReturnsFirstAttempt ==
    \A id \in DOMAIN log :
        /\ (log[id].ret = "true") <=> (log[id].first = "ok")
        /\ log[id].first \in {"raised", "noreceiver"} => log[id].ret = "false"
        /\ (log[id].ret = "none") <=>
              \E i \in DOMAIN stack :
                  /\ stack[i].op = "deliver"
                  /\ stack[i].msg = id /\ stack[i].via = "send"

\* a message whose first attempt raised, delivered by a retry: false was returned
C1_Witness ==
    \E id \in DOMAIN log :
        /\ log[id].first = "raised" /\ log[id].ret = "false"
        /\ log[id].delivered = 1 /\ log[id].calls >= 2

\* C2: a send_message call with a message past its expiry is rejected whatever
\* the state of its receiver (unregistered, ACTIVE, BUSY, INACTIVE or ERROR):
\* it returns false, no handler is invoked, nothing is added to the history,
\* no retry is scheduled and no agent's registration changes; and no message
\* that send_message lets pass is past its expiry at that moment.
C2_ExpiredRejected ==
    /\ [][last_reject'.why = "expired" =>
            /\ last_reject'.returned = "false"
            /\ UNCHANGED <<registered_agents, msgs, message_history,
                           retry_threads, stack, log>>]_vars
    /\ [][Len(msgs') > Len(msgs) => now <= Last(msgs').expires_at]_vars

\* an expired message was just sent to a receiver that is BUSY in its handler
C2_Witness ==
    /\ last_reject.why = "expired" /\ last_reject.returned = "false"
    /\ last_reject.rcv = "BUSY"
    /\ InHandler

\* C3: a valid message to a receiver that is not registered: send_message
\* returns false and appends the message, with retry count 0, to the failed
\* messages; it invokes no handler, leaves the history, every agent's status
\* and the retry threads as they were, and no retry is ever scheduled for the
\* message afterwards.
C3_UnregisteredReceiver ==
    /\ [](\A id \in DOMAIN log :
            log[id].first = "noreceiver" =>
                /\ log[id].ret = "false"
                /\ log[id].calls = 0 /\ log[id].delays = <<>>
                /\ log[id].archived = 1
                /\ msgs[id].retry_count = 0
                /\ \A t \in retry_threads : t.msg # id
                /\ \A i \in DOMAIN message_history : message_history[i] # id)
    /\ [][( /\ Len(msgs') > Len(msgs)
            /\ Last(msgs').receiver \notin DOMAIN registered_agents ) =>
                /\ failed_messages' = Append(failed_messages, Len(msgs'))
                /\ Last(msgs').retry_count = 0
                /\ log'[Len(msgs')].ret = "false"
                /\ log'[Len(msgs')].first = "noreceiver"
                /\ UNCHANGED <<registered_agents, message_history,
                               retry_threads, stack>>]_vars

\* a message archived for want of a receiver; its receiver has registered
\* since, time has passed, and still nothing was attempted
C3_Witness ==
    \E id \in DOMAIN log :
        /\ log[id].first = "noreceiver"
        /\ \E i \in DOMAIN failed_messages : failed_messages[i] = id
        /\ msgs[id].receiver \in DOMAIN registered_agents
        /\ now > msgs[id].timestamp
        /\ log[id].calls = 0 /\ retry_threads = {}

\* C4, as the specification states it: a message that fails validation
\* (no sender, no receiver, a payload that is no dict, or expired) makes
\* send_message return false and is added to the failed messages by the call.
C4_RejectionArchived ==
    [][last_reject' # NoReject =>
        /\ last_reject'.returned = "false"
        /\ Len(failed_messages') = Len(failed_messages) + 1]_vars

\* C4, as the code has it: a message that fails validation makes send_message
\* return false and is recorded nowhere: the failed messages, the history,
\* the retry threads and the registry are as before the call, and no handler
\* is invoked; every message that send_message records has a sender, a
\* receiver, a dict payload and is not past its expiry at that moment.
C4_RejectionNotArchived ==
    /\ [][last_reject' # NoReject =>
            /\ last_reject'.returned = "false"
            /\ UNCHANGED <<failed_messages, msgs, message_history,
                           retry_threads, registered_agents, stack, log>>]_vars
    /\ [][Len(msgs') > Len(msgs) =>
            /\ Last(msgs').sender # "" /\ Last(msgs').receiver # ""
            /\ Last(msgs').payload_is_dict
            /\ now <= Last(msgs').expires_at]_vars

\* a message with a payload that is no dict was just rejected, and the
\* failed messages are empty
C4_Witness ==
    /\ last_reject.why = "payload" /\ last_reject.returned = "false"
    /\ last_reject.rcv = "ACTIVE"
    /\ failed_messages = <<>>

\* C5: a message's retry count is always within 0 .. A2A_MAX_RETRIES, it
\* counts the retries scheduled for the message, and the N-th retry was
\* scheduled with a delay of min(2^N, 5) seconds: 2, 4, 5.
C5_RetryBackoff ==
    \A id \in DOMAIN msgs :
        /\ msgs[id].retry_count \in 0 .. A2A_MAX_RETRIES
        /\ Len(log[id].delays) = msgs[id].retry_count
        /\ \A n \in DOMAIN log[id].delays :
               log[id].delays[n] = IF 2 ^ n < 5 THEN 2 ^ n ELSE 5
        /\ \A t \in retry_threads :
               t.msg = id =>
                   /\ msgs[id].retry_count >= 1
                   /\ t.delay = log[id].delays[msgs[id].retry_count]

\* a message whose three retries were scheduled after 2, 4 and 5 seconds
C5_Witness ==
    \E id \in DOMAIN msgs :
        /\ msgs[id].retry_count = A2A_MAX_RETRIES
        /\ log[id].delays = <<2, 4, 5>>

\* C6: for a message send_message accepted, at most 1 + A2A_MAX_RETRIES
\* delivery attempts are made and at most A2A_MAX_RETRIES retries scheduled;
\* it is delivered at most once, and archived at most once, only when every
\* attempt failed and the retries are used up; once it is archived no retry
\* is pending, no attempt is running and nothing more happens to it.
C6_BoundedAttempts ==
    /\ [](\A id \in DOMAIN log :
            log[id].first # "noreceiver" =>
                /\ log[id].calls <= 1 + A2A_MAX_RETRIES
                /\ Len(log[id].delays) <= A2A_MAX_RETRIES
                /\ log[id].delivered + log[id].archived <= 1
                /\ log[id].archived = 1 =>
                       /\ Len(log[id].delays) = A2A_MAX_RETRIES
                       /\ Len(SelectSeq(failed_messages, LAMBDA x : x = id)) <= 1
                       /\ \A t \in retry_threads : t.msg # id
                       /\ \A i \in DOMAIN stack :
                              stack[i].op = "deliver" => stack[i].msg # id)
    /\ [][\A id \in DOMAIN log :
            (log[id].first # "noreceiver" /\ log[id].archived = 1) =>
                /\ log'[id] = log[id] /\ msgs'[id] = msgs[id]
                /\ Len(SelectSeq(failed_messages', LAMBDA x : x = id)) <=
                       Len(SelectSeq(failed_messages, LAMBDA x : x = id))]_vars

\* a message whose handler raised in all four attempts, archived once
C6_Witness ==
    \E id \in DOMAIN log :
        /\ log[id].calls = 1 + A2A_MAX_RETRIES
        /\ log[id].delivered = 0 /\ log[id].archived = 1
        /\ Len(SelectSeq(failed_messages, LAMBDA x : x = id)) = 1
-----------------------------------------------------------------------------
(* Properties of a delivery attempt, under SpecNested *)

\* C7, as the specification states it: in every delivery attempt the
\* receiver's status is BUSY for the whole time its handler runs; when the
\* handler returns normally the status is what it was immediately before the
\* attempt; when it raises the status becomes ERROR and the retry policy is
\* invoked for the message.
C7_BusyWhileHandlerRuns ==
    /\ [](\A i \in DOMAIN stack :
            stack[i].op = "deliver" =>
                registered_agents[stack[i].receiver].status = "BUSY")
    /\ [][HandlerReturn =>
            registered_agents'[Last(stack).receiver].status = Last(stack).old_status]_vars
    /\ [][HandlerRaise =>
            /\ registered_agents'[Last(stack).receiver].status = "ERROR"
            /\ \/ \E t \in retry_threads' \ retry_threads : t.msg = Last(stack).msg
               \/ failed_messages' = Append(failed_messages, Last(stack).msg)]_vars

\* C7, as the code has it: a delivery attempt saves the receiver's status and
\* sets it to BUSY; while the handler runs the status is BUSY or ERROR, and
\* it leaves BUSY only when a delivery to the same receiver, nested in the
\* handler, ends and leaves ERROR; when the handler returns normally the
\* status is set to the saved one; when it raises the status becomes ERROR,
\* and the retry policy is invoked if send_message or a retry thread made the
\* attempt, while a raise in a lifecycle broadcast schedules and archives
\* nothing.
C7_DeliveryAttemptStatus ==
    /\ [](\A i \in DOMAIN stack :
            stack[i].op = "deliver" =>
                registered_agents[stack[i].receiver].status \in {"BUSY", "ERROR"})
    /\ [][(Len(stack') = Len(stack) + 1 /\ Last(stack').op = "deliver") =>
            /\ Last(stack').old_status = registered_agents[Last(stack').receiver].status
            /\ registered_agents'[Last(stack').receiver].status = "BUSY"]_vars
    /\ [][\A i \in DOMAIN stack :
            ( /\ stack[i].op = "deliver"
              /\ registered_agents[stack[i].receiver].status = "BUSY"
              /\ i \in DOMAIN stack'
              /\ registered_agents'[stack[i].receiver].status # "BUSY" ) =>
                /\ Len(stack') = Len(stack) - 1 /\ i < Len(stack)
                /\ Last(stack).op = "deliver"
                /\ Last(stack).receiver = stack[i].receiver
                /\ registered_agents'[stack[i].receiver].status = "ERROR"]_vars
    /\ [][HandlerReturn =>
            registered_agents'[Last(stack).receiver].status = Last(stack).old_status]_vars
    /\ [][HandlerRaise =>
            /\ registered_agents'[Last(stack).receiver].status = "ERROR"
            /\ IF Last(stack).via = "broadcast"
               THEN UNCHANGED <<msgs, failed_messages, retry_threads>>
               ELSE IF msgs[Last(stack).msg].retry_count < A2A_MAX_RETRIES
               THEN /\ msgs'[Last(stack).msg].retry_count =
                           msgs[Last(stack).msg].retry_count + 1
                    /\ \E t \in retry_threads' \ retry_threads : t.msg = Last(stack).msg
                    /\ UNCHANGED failed_messages
               ELSE /\ failed_messages' = Append(failed_messages, Last(stack).msg)
                    /\ UNCHANGED retry_threads]_vars

\* a handler is running whose receiver is in ERROR: a delivery to the same
\* receiver, sent from inside the handler, raised and had its retry scheduled
C7_Witness ==
    /\ InHandler
    /\ registered_agents[Last(stack).receiver].status = "ERROR"
    /\ \E t \in retry_threads :
           /\ msgs[t.msg].receiver = Last(stack).receiver
           /\ msgs[t.msg].sender = Last(stack).receiver

-----------------------------------------------------------------------------
(* Properties of the registry, under SpecRegistry *)

\* C8: right after register_agent(name, capabilities),
\* get_agent_capabilities(name) is the list passed (the empty list for the
\* default None), also when the name was registered before with another
\* list; the answer for a name changes only when that name is registered or
\* unregistered; and for a name that is not registered it is the empty list.
C8_CapabilitiesOfLastRegistration ==
    /\ [](\A a \in Agents :
            a \notin DOMAIN registered_agents => get_agent_capabilities(a) = <<>>)
    /\ [][\A a \in Agents, c \in CapabilityInputs :
            register_agent(a, c) =>
                get_agent_capabilities(a)' = IF c = None THEN <<>> ELSE c[1]]_vars
    /\ [][\A a \in Agents :
            get_agent_capabilities(a)' # get_agent_capabilities(a) =>
                \/ \E c \in CapabilityInputs : register_agent(a, c)
                \/ unregister_agent(a)]_vars

\* a name was just registered over an earlier registration, with two
\* capabilities, while another name is not registered
C8_Witness ==
    /\ InBroadcast
    /\ Last(stack).event_type = "agent_registered" /\ Last(stack).replaced
    /\ Last(stack).pending = DOMAIN registered_agents
    /\ get_agent_capabilities(Last(stack).agent_name) = <<"compare", "rank">>
    /\ \E a \in Agents : a \notin DOMAIN registered_agents

\* C9: the broadcast of register_agent / unregister_agent of X invokes the
\* handlers of exactly the registered agents other than X that are ACTIVE:
\* none else is invoked, a recipient that raises stops nothing, and when the
\* call returns every one of them has been invoked and X is registered
\* (removed).
C9_BroadcastReachesActiveOthers ==
    /\ [](\A i \in DOMAIN stack :
            stack[i].op = "broadcast" =>
                /\ stack[i].invoked \subseteq stack[i].targets
                /\ stack[i].targets \ stack[i].invoked \subseteq stack[i].pending
                /\ stack[i].raised \subseteq stack[i].invoked
                /\ stack[i].agent_name \notin stack[i].invoked
                /\ (stack[i].event_type = "agent_registered") <=>
                       (stack[i].agent_name \in DOMAIN registered_agents))
    /\ [][(stack = <<>> /\ stack' # <<>>) =>
            stack'[1].targets =
                {r \in DOMAIN registered_agents' \ {stack'[1].agent_name} :
                    registered_agents'[r].status = "ACTIVE"}]_vars
    /\ [][BroadcastDone =>
            /\ Last(stack).invoked = Last(stack).targets
            /\ (Last(stack).event_type = "agent_registered") <=>
                   (Last(stack).agent_name \in DOMAIN registered_agents')]_vars

\* a broadcast has visited every entry: two recipients were invoked, and both
\* raised
C9_Witness ==
    /\ InBroadcast
    /\ Last(stack).pending = {}
    /\ Cardinality(Last(stack).invoked) = 2
    /\ Last(stack).raised = Last(stack).invoked

\* C10: a pass of the monitor sets every ACTIVE agent whose last heartbeat is
\* older than 2 x A2A_MESSAGE_TIMEOUT to INACTIVE; send_heartbeat for a
\* registered agent sets its last heartbeat to now and an INACTIVE status to
\* ACTIVE; neither removes an agent: the registered names change only by
\* register_agent and unregister_agent.
C10_MonitorAndHeartbeat ==
    /\ [][monitor_agent_heartbeats =>
            /\ DOMAIN registered_agents' = DOMAIN registered_agents
            /\ \A a \in DOMAIN registered_agents :
                   ( /\ registered_agents[a].status = "ACTIVE"
                     /\ now - registered_agents[a].last_heartbeat >
                            2 * A2A_MESSAGE_TIMEOUT ) =>
                       registered_agents'[a].status = "INACTIVE"]_vars
    /\ [][\A a \in DOMAIN registered_agents :
            send_heartbeat(a) =>
                /\ a \in DOMAIN registered_agents'
                /\ registered_agents'[a].last_heartbeat = now
                /\ registered_agents[a].status = "INACTIVE" =>
                       registered_agents'[a].status = "ACTIVE"]_vars
    /\ [][DOMAIN registered_agents' # DOMAIN registered_agents =>
            \E a \in Agents :
                \/ \E c \in CapabilityInputs : register_agent(a, c)
                \/ unregister_agent(a)]_vars

\* the monitor has set an agent INACTIVE whose heartbeat is older than two
\* timeouts, beside an agent whose heartbeat is of this instant
C10_Witness ==
    /\ \E a \in DOMAIN registered_agents :
           /\ registered_agents[a].status = "INACTIVE"
           /\ now - registered_agents[a].last_heartbeat > 2 * A2A_MESSAGE_TIMEOUT
    /\ \E b \in DOMAIN registered_agents :
           /\ registered_agents[b].status = "ACTIVE"
           /\ registered_agents[b].last_heartbeat = now
-----------------------------------------------------------------------------
(* The lock and the handlers, under Spec *)

\* C11, as the specification states it: the lock is not held while a handler
\* invoked by send_message runs, so that all that time a send_heartbeat call
\* and a pass of the monitor, made by other threads, can take the lock and
\* complete.
C11_HandlerOutsideLock ==
    (\E i \in DOMAIN stack : stack[i].op = "deliver" /\ stack[i].via = "send") =>
        /\ LockFree
        /\ ENABLED Heartbeat(BusAgents)
        /\ ENABLED monitor_agent_heartbeats

\* a handler invoked by send_message is running, for a receiver the monitor
\* found without heartbeat before: the heartbeat that would reactivate it waits
C11_Witness ==
    /\ InHandler /\ Last(stack).via = "send"
    /\ Last(stack).old_status = "INACTIVE"
    /\ ~LockFree
    /\ ~ENABLED Heartbeat(BusAgents)

-----------------------------------------------------------------------------
(***************************************************************************)
(* The worker agents.  Scores are counted in thousandths: 1000 is the      *)
(* score 1.0 of the program, 20 its 0.02.  The rounding of binary          *)
(* floating point is not modelled.                                         *)
(*                                                                         *)
(* A value read from a JSON-like dict is a record with a tag for its       *)
(* Python type: "missing" (the key is absent), "null" (None), "text" (a    *)
(* string that is no number), "num", "list" (of len elements), "notlist",  *)
(* "dict", "notdict".                                                      *)
(***************************************************************************)

\* longest skill list of a comparison result
MaxSkills == 7

\* the numbers of _calculate_enhanced_score, in thousandths
SCORE_ONE == 1000
SKILL_BONUS == 20
SKILL_PENALTY == 15
SKILLS_CAP == 100
RELEVANCE_THRESHOLD == 700
EXPERIENCE_BONUS == 50
EDUCATION_BONUS == 30
HIGHLY_RECOMMENDED_BONUS == 80
RECOMMENDED_BONUS == 40
NOT_RECOMMENDED_PENALTY == 50

Max(a, b) == IF a > b THEN a ELSE b

Num(n) == [tag |-> "num", num |-> n]
Null == [tag |-> "null", num |-> 0]
Text == [tag |-> "text", num |-> 0]
MissingNum == [tag |-> "missing", num |-> 0]

List(n) == [tag |-> "list", len |-> n]
NotList == [tag |-> "notlist", len |-> 0]
MissingList == [tag |-> "missing", len |-> 0]

SkillsMatch(tag, matched_skills, missing_skills) ==
    [tag |-> tag, matched_skills |-> matched_skills,
     missing_skills |-> missing_skills]
ExperienceMatch(tag, relevance_score) ==
    [tag |-> tag, relevance_score |-> relevance_score]
EducationMatch(tag, meets_requirements) ==
    [tag |-> tag, meets_requirements |-> meets_requirements]
OverallAssessment(tag, recommendation) ==
    [tag |-> tag, recommendation |-> recommendation]

\* the empty dict {} that every .get(key, {}) of the function defaults to:
\* each of its own keys is absent
EmptySkills == SkillsMatch("dict", MissingList, MissingList)
EmptyExperience == ExperienceMatch("dict", MissingNum)
EmptyEducation == EducationMatch("dict", FALSE)
EmptyAssessment == OverallAssessment("dict", "")

ComparisonDetails(tag, skills_match, experience_match, education_match, overall_assessment) ==
    [tag |-> tag, skills_match |-> skills_match,
     experience_match |-> experience_match,
     education_match |-> education_match,
     overall_assessment |-> overall_assessment]

DetailsOf(tag) ==
    ComparisonDetails(tag, [EmptySkills EXCEPT !.tag = "missing"],
                      [EmptyExperience EXCEPT !.tag = "missing"],
                      [EmptyEducation EXCEPT !.tag = "missing"],
                      [EmptyAssessment EXCEPT !.tag = "missing"])

\* one entry of comparison_results
ComparisonResult(application_id, similarity_score, comparison_details) ==
    [application_id |-> application_id,
     similarity_score |-> similarity_score,
     comparison_details |-> comparison_details]

\* dict.get(key, default): the default stands for an absent key only
Get(value, default) == IF value.tag = "missing" THEN default ELSE value

\* max(0.0, min(1.0, x))
clamp01(x) == Max(0, Min(SCORE_ONE, x))

\* min(0.1, len(matched_skills) * 0.02) without its cap
skills_bonus_uncapped(n) == n * SKILL_BONUS

\* min(0.1, len(matched_skills) * 0.02)
skills_bonus(n) == Min(SKILLS_CAP, n * SKILL_BONUS)

\* min(0.1, len(missing_skills) * 0.015)
skills_penalty(n) == Min(SKILLS_CAP, n * SKILL_PENALTY)

\* the skills block: what it adds to enhanced_score
skills_adjustment(comparison_details) ==
    LET skills_match == Get(comparison_details.skills_match, EmptySkills)
        matched_skills == Get(skills_match.matched_skills, List(0))
        missing_skills == Get(skills_match.missing_skills, List(0))
    IN IF skills_match.tag # "dict" THEN 0
       ELSE (IF matched_skills.tag = "list" /\ matched_skills.len > 0
             THEN skills_bonus(matched_skills.len) ELSE 0)
          - (IF missing_skills.tag = "list" /\ missing_skills.len > 0
             THEN skills_penalty(missing_skills.len) ELSE 0)

\* the experience block; float(relevance_score) raises for a value that is
\* no number and the block passes
experience_adjustment(comparison_details) ==
    LET experience_match == Get(comparison_details.experience_match, EmptyExperience)
        relevance_score == Get(experience_match.relevance_score, Num(0))
    IN IF experience_match.tag # "dict" THEN 0
       ELSE IF relevance_score.tag = "num" /\ relevance_score.num > RELEVANCE_THRESHOLD
       THEN EXPERIENCE_BONUS ELSE 0

\* the education block
education_adjustment(comparison_details) ==
    LET education_match == Get(comparison_details.education_match, EmptyEducation)
    IN IF education_match.tag # "dict" THEN 0
       ELSE IF education_match.meets_requirements THEN EDUCATION_BONUS ELSE 0

\* the overall assessment block
assessment_adjustment(comparison_details) ==
    LET overall_assessment == Get(comparison_details.overall_assessment, EmptyAssessment)
        recommendation == overall_assessment.recommendation
    IN IF overall_assessment.tag # "dict" THEN 0
       ELSE IF recommendation = "highly_recommended" THEN HIGHLY_RECOMMENDED_BONUS
       ELSE IF recommendation = "recommended" THEN RECOMMENDED_BONUS
       ELSE IF recommendation = "not_recommended" THEN 0 - NOT_RECOMMENDED_PENALTY
       ELSE 0

\* the except branch: float(base_score) of the raw value, 0.0 for None and
\* for what float() refuses
score_after_exception(result) ==
    LET base_score == Get(result.similarity_score, Num(0))
    IN IF base_score.tag = "num" THEN base_score.num ELSE 0

\* RankingAgent._calculate_enhanced_score(result)
calculate_enhanced_score(result) ==
    LET raw == Get(result.similarity_score, Num(0))
        base == IF raw.tag = "null" THEN Num(0) ELSE raw
        comparison_details == Get(result.comparison_details, DetailsOf("dict"))
    IN IF base.tag # "num"
       THEN score_after_exception(result)       \* float(base_score) raised
       ELSE IF comparison_details.tag # "dict"
       THEN base.num                            \* return base_score
       ELSE clamp01(base.num
                    + skills_adjustment(comparison_details)
                    + experience_adjustment(comparison_details)
                    + education_adjustment(comparison_details)
                    + assessment_adjustment(comparison_details))

(* Inputs of the scoring function *)

SimilarityInputs ==
    {MissingNum, Null, Text} \cup
    {Num(n) : n \in {0 - 500, 0, 500, 950, SCORE_ONE, 1500}}

ListInputs(max_skills) ==
    {MissingList, NotList} \cup {List(n) : n \in 0..max_skills}

SkillsInputs(max_skills) ==
    {[EmptySkills EXCEPT !.tag = t] : t \in {"missing", "notdict"}} \cup
    {SkillsMatch("dict", m, k) :
        m \in ListInputs(max_skills), k \in ListInputs(max_skills)}

ExperienceInputs ==
    {[EmptyExperience EXCEPT !.tag = t] : t \in {"missing", "notdict"}} \cup
    {ExperienceMatch("dict", r) :
        r \in {MissingNum, Text, Num(RELEVANCE_THRESHOLD),
               Num(RELEVANCE_THRESHOLD + 1)}}

EducationInputs ==
    {[EmptyEducation EXCEPT !.tag = t] : t \in {"missing", "notdict"}} \cup
    {EducationMatch("dict", e) : e \in BOOLEAN}

AssessmentInputs ==
    {[EmptyAssessment EXCEPT !.tag = t] : t \in {"missing", "notdict"}} \cup
    {OverallAssessment("dict", c) :
        c \in {"", "highly_recommended", "recommended", "not_recommended",
               "consider"}}

DetailsInputs(max_skills) ==
    {DetailsOf("missing"), DetailsOf("notdict")} \cup
    {ComparisonDetails("dict", sk, ex, ed, oa) :
        sk \in SkillsInputs(max_skills), ex \in ExperienceInputs,
        ed \in EducationInputs, oa \in AssessmentInputs}

ScoreInputs(max_skills) ==
    {ComparisonResult(1, s, d) :
        s \in SimilarityInputs, d \in DetailsInputs(max_skills)}

\* a comparison result as the comparison stage builds it: a similarity in
\* [0,1] and every sub-structure of its type
WellFormed(result) ==
    /\ result.similarity_score.tag = "num"
    /\ result.similarity_score.num \in 0..SCORE_ONE
    /\ result.comparison_details.tag = "dict"
    /\ LET d == result.comparison_details IN
       /\ d.skills_match.tag = "dict"
       /\ d.skills_match.matched_skills.tag = "list"
       /\ d.skills_match.missing_skills.tag = "list"
       /\ d.experience_match.tag = "dict"
       /\ d.experience_match.relevance_score.tag = "num"
       /\ d.education_match.tag = "dict"
       /\ d.overall_assessment.tag = "dict"

(* The scoring function applied to every input *)

InitScore ==
    /\ now = 0
    /\ registered_agents = [a \in {} |-> 0]
    /\ msgs = <<>>
    /\ message_history = <<>>
    /\ failed_messages = <<>>
    /\ retry_threads = {}
    /\ stack = <<>>
    /\ log = <<>>
    /\ last_reject = NoReject
    /\ score_result \in ScoreInputs(MaxSkills)
    /\ score_returned = None
    /\ rankings = {}
    /\ rank_call = None
    /\ compare_call = None
    /\ payloads = <<>>
    /\ handlers = <<>>
    /\ emails = <<>>
    /\ pipeline_run = None

\* _calculate_enhanced_score(score_result) is called and returns
Score ==
    /\ score_returned = None
    /\ score_returned' = Some(calculate_enhanced_score(score_result))
    /\ UNCHANGED <<score_result, rankings, rank_call, compare_call, payloads,
                   handlers, emails, pipeline_run>>
    /\ UNCHANGED bus_vars

NextScore == Score

SpecScore == InitScore /\ [][NextScore]_vars

\* C12, as the specification states it: whatever comparison result the
\* scoring function is given, malformed ones included, the enhanced score it
\* returns lies within [0,1].
C12_ScoreWithinBounds ==
    score_returned # None =>
        /\ score_returned[1] >= 0
        /\ score_returned[1] <= SCORE_ONE

\* the function has returned for a result whose similarity is above 1 and
\* whose comparison details are no dict
C12_Witness ==
    /\ score_returned # None
    /\ score_result.similarity_score = Num(1500)
    /\ score_result.comparison_details.tag = "notdict"
    /\ score_returned[1] = 1500

\* C13: for a well-formed comparison result with similarity s, m matched and
\* k missing skills, experience relevance r, education flag e and
\* recommendation c, the enhanced score is
\* clamp01(s + min(0.10, 0.02 m) - min(0.10, 0.015 k) + (0.05 if r > 0.70)
\* + (0.03 if e) + adj(c)), adj being +0.08, +0.04, -0.05 for
\* highly_recommended, recommended, not_recommended and 0 otherwise; so 5
\* matched and 0 missing skills add 0.10, and without adjustments it is s.
C13_EnhancedScoreFormula ==
    (score_returned # None /\ WellFormed(score_result)) =>
        LET d == score_result.comparison_details
            s == score_result.similarity_score.num
            m == d.skills_match.matched_skills.len
            k == d.skills_match.missing_skills.len
            r == d.experience_match.relevance_score.num
            e == d.education_match.meets_requirements
            c == d.overall_assessment.recommendation
            bonus == IF 20 * m < 100 THEN 20 * m ELSE 100
            penalty == IF 15 * k < 100 THEN 15 * k ELSE 100
            adj == CASE c = "highly_recommended" -> 80
                     [] c = "recommended" -> 40
                     [] c = "not_recommended" -> 0 - 50
                     [] OTHER -> 0
            rest == (IF r > 700 THEN 50 ELSE 0) + (IF e THEN 30 ELSE 0) + adj
            sum == s + bonus - penalty + rest
            expected == IF sum < 0 THEN 0 ELSE IF sum > 1000 THEN 1000 ELSE sum
        IN /\ score_returned[1] = expected
           /\ (m = 5 /\ k = 0 /\ rest = 0) =>
                  score_returned[1] = (IF s + 100 > 1000 THEN 1000 ELSE s + 100)
           /\ (m = 0 /\ k = 0 /\ rest = 0) => score_returned[1] = s

\* the function has returned for a well-formed result with more matched
\* skills than the cap rewards, a missing skill and every other adjustment
C13_Witness ==
    /\ score_returned # None /\ WellFormed(score_result)
    /\ score_result.similarity_score = Num(500)
    /\ score_result.comparison_details.skills_match.matched_skills.len = 6
    /\ score_result.comparison_details.skills_match.missing_skills.len = 1
    /\ score_result.comparison_details.experience_match.relevance_score.num = 701
    /\ score_result.comparison_details.education_match.meets_requirements
    /\ score_result.comparison_details.overall_assessment.recommendation = "recommended"
    /\ score_returned[1] = 705

-----------------------------------------------------------------------------
(* RankingAgent.rank_applications and the rankings table.  Every statement
   on the table is a transaction of its own (database/connection.py,
   get_cursor), and the table has UNIQUE(job_id, application_id)
   (database/migrations.py). *)

\* rank_applications is called MaxRuns times at most
MaxRuns == 2
ApplicationIds == {1, 2}
Jobs == {1, 2}

\* a row of the rankings table; similarity_score holds the enhanced score
Ranking(job_id, application_id, similarity_score, rank_position) ==
    [job_id |-> job_id, application_id |-> application_id,
     similarity_score |-> similarity_score, rank_position |-> rank_position]

\* the loop that sets result['enhanced_score']
scored_results(comparison_results) ==
    [i \in 1..Len(comparison_results) |->
        [application_id |-> comparison_results[i].application_id,
         enhanced_score |-> calculate_enhanced_score(comparison_results[i])]]

\* sorted(scored_results, key=enhanced_score, reverse=True): a stable sort,
\* equal scores keep the order of the input
RECURSIVE sorted_descending(_)
sorted_descending(results) ==
    IF results = <<>> THEN <<>>
    ELSE LET x == Last(results)
             rest == sorted_descending(Front(results))
         IN SelectSeq(rest, LAMBDA y : y.enhanced_score >= x.enhanced_score)
            \o <<x>>
            \o SelectSeq(rest, LAMBDA y : y.enhanced_score < x.enhanced_score)

\* _clear_existing_rankings(job_id): the DELETE, or nothing when it raises
clear_existing_rankings(table, job_id, fails) ==
    IF fails THEN table ELSE {r \in table : r.job_id # job_id}

\* _save_ranking(ranking) returns an id: the INSERT neither raises for a
\* reason of its own nor meets a row of the same job and application
save_ranking_succeeds(table, ranking, fails) ==
    /\ ~fails
    /\ ~\E r \in table : /\ r.job_id = ranking.job_id
                         /\ r.application_id = ranking.application_id

\* a ranking as formatted for the response
FormattedRanking(ranking) ==
    [rank |-> ranking.rank_position, application_id |-> ranking.application_id,
     similarity_score |-> ranking.similarity_score]

\* for i, result in enumerate(ranked_results, 1), from position i on:
\* the table and the list rankings when the loop ends
RECURSIVE save_rankings(_, _, _, _, _, _)
save_rankings(table, saved, ranked_results, i, job_id, save_fails) ==
    IF i > Len(ranked_results) THEN [table |-> table, rankings |-> saved]
    ELSE LET ranking == Ranking(job_id, ranked_results[i].application_id,
                                ranked_results[i].enhanced_score, i)
         IN IF save_ranking_succeeds(table, ranking, i \in save_fails)
            THEN save_rankings(table \cup {ranking}, Append(saved, ranking),
                               ranked_results, i + 1, job_id, save_fails)
            ELSE save_rankings(table, saved, ranked_results, i + 1, job_id,
                               save_fails)

RankResult(status, message, formatted) ==
    [status |-> status, message |-> message, rankings |-> formatted]

\* rank_applications(task_data) on the table `table`; clear_fails and
\* save_fails say which statements the database refuses: the DELETE, and
\* the INSERT of which positions.  job_id 0 is an absent job id.
rank_applications(table, task_data, clear_fails, save_fails) ==
    IF task_data.job_id = 0
    THEN [table |-> table, result |-> RankResult("error", "Job ID required", <<>>)]
    ELSE IF task_data.comparison_results = <<>>
    THEN [table |-> table,
          result |-> RankResult("error", "No comparison results to rank", <<>>)]
    ELSE LET ranked_results ==
                 sorted_descending(scored_results(task_data.comparison_results))
             cleared == clear_existing_rankings(table, task_data.job_id, clear_fails)
             done == save_rankings(cleared, <<>>, ranked_results, 1,
                                   task_data.job_id, save_fails)
         IN IF done.rankings = <<>>
            THEN [table |-> done.table,
                  result |-> RankResult("error",
                                "Failed to save rankings to database", <<>>)]
            ELSE [table |-> done.table,
                  result |-> RankResult("success", "",
                                [i \in 1..Len(done.rankings) |->
                                    FormattedRanking(done.rankings[i])])]

(* Inputs of rank_applications *)

\* comparison results of the three kinds the ranking tells apart: a score of
\* 0.5, the same enhanced score reached from a lower similarity, and 0.2
Plain(application_id, similarity) ==
    ComparisonResult(application_id, Num(similarity),
        ComparisonDetails("dict", EmptySkills, EmptyExperience, EmptyEducation,
                          EmptyAssessment))

Recommended(application_id, similarity) ==
    ComparisonResult(application_id, Num(similarity),
        ComparisonDetails("dict", EmptySkills, EmptyExperience, EmptyEducation,
                          OverallAssessment("dict", "recommended")))

ResultInputs(application_id) ==
    {Plain(application_id, 500), Recommended(application_id, 460),
     Plain(application_id, 200)}

\* the lists of comparison results, one result per application at most
RECURSIVE ResultLists(_)
ResultLists(n) ==
    IF n = 0 THEN {<<>>}
    ELSE LET shorter == ResultLists(n - 1)
         IN shorter \cup
            {Append(l, r) : l \in {q \in shorter : Len(q) = n - 1},
                            r \in UNION {ResultInputs(a) : a \in ApplicationIds}}

DistinctApplications(l) ==
    \A i, j \in 1..Len(l) : i # j => l[i].application_id # l[j].application_id

RankTasks ==
    {[job_id |-> j, comparison_results |-> l] :
        j \in Jobs \cup {0},
        l \in {q \in ResultLists(Cardinality(ApplicationIds)) :
                    DistinctApplications(q)}}

InitRanking ==
    /\ now = 0
    /\ registered_agents = [a \in {} |-> 0]
    /\ msgs = <<>>
    /\ message_history = <<>>
    /\ failed_messages = <<>>
    /\ retry_threads = {}
    /\ stack = <<>>
    /\ log = <<>>
    /\ last_reject = NoReject
    /\ WorkersIdle

\* the statements a call reaches: none when task_data is refused at once
Persists(task_data) ==
    task_data.job_id # 0 /\ task_data.comparison_results # <<>>

\* rank_applications(task_data) is called and returns; the database may
\* refuse the DELETE and any of the INSERTs
RankApplications ==
    \E task_data \in RankTasks :
    \E clear_fails \in IF Persists(task_data) THEN BOOLEAN ELSE {FALSE} :
    \E save_fails \in IF Persists(task_data)
                      THEN SUBSET (1..Len(task_data.comparison_results))
                      ELSE {{}} :
        LET out == rank_applications(rankings, task_data, clear_fails, save_fails)
            run == IF rank_call = None THEN 1 ELSE rank_call[1].run + 1
        IN /\ run <= MaxRuns
           /\ rankings' = out.table
           /\ rank_call' = Some([run |-> run,
                                 task_data |-> task_data, before |-> rankings,
                                 result |-> out.result])
           /\ UNCHANGED <<score_result, score_returned, compare_call, payloads,
                          handlers, emails, pipeline_run>>
           /\ UNCHANGED bus_vars

NextRanking == RankApplications

SpecRanking == InitRanking /\ [][NextRanking]_vars

\* the rows of job j in a table
RowsOf(table, j) == {r \in table : r.job_id = j}

\* C14, as the specification states it: when a ranking run returns success,
\* the positions of the rankings it returns, which are the rows stored for
\* the job, are exactly 1..N in this order, by descending enhanced score, and
\* applications of equal score keep the order of the input list; also when
\* the save of a ranking failed.
C14_ContiguousPositions ==
    (rank_call # None /\ rank_call[1].result.status = "success") =>
        LET call == rank_call[1]
            returned == call.result.rankings
            input == call.task_data.comparison_results
            N == Len(returned)
            place(a) == CHOOSE i \in 1..Len(input) : input[i].application_id = a
        IN /\ \A i \in 1..N : returned[i].rank = i
           /\ RowsOf(rankings, call.task_data.job_id) =
                  {Ranking(call.task_data.job_id, returned[i].application_id,
                           returned[i].similarity_score, returned[i].rank) :
                       i \in 1..N}
           /\ \A i, j \in 1..N : i < j =>
                  /\ returned[i].similarity_score >= returned[j].similarity_score
                  /\ returned[i].similarity_score = returned[j].similarity_score
                         => place(returned[i].application_id)
                                < place(returned[j].application_id)

\* a run of two applications returned success although the INSERT of its
\* first position failed: the one ranking it returns and stores has position 2
C14_Witness ==
    /\ rank_call # None
    /\ rank_call[1].result.status = "success"
    /\ rank_call[1].before = {}
    /\ Len(rank_call[1].task_data.comparison_results) = 2
    /\ Len(rank_call[1].result.rankings) = 1
    /\ rank_call[1].result.rankings[1].rank = 2
    /\ \A r \in rankings : r.rank_position = 2

\* C15, as the specification states it: after a ranking run for job J the
\* stored rankings of J are exactly the rankings that run produced, none of
\* an earlier run remains, and the rankings of the other jobs are as they
\* were; also when the delete of the prior rankings or a save failed.
C15_RunReplacesRankings ==
    (rank_call # None /\ rank_call[1].task_data.job_id # 0
        /\ rank_call[1].task_data.comparison_results # <<>>) =>
        LET call == rank_call[1]
            J == call.task_data.job_id
            returned == call.result.rankings
        IN /\ RowsOf(rankings, J) =
                  {Ranking(J, returned[i].application_id,
                           returned[i].similarity_score, returned[i].rank) :
                       i \in 1..Len(returned)}
           /\ \A j \in Jobs \ {J} : RowsOf(rankings, j) = RowsOf(call.before, j)

\* a run for a job that had rankings returned success after its DELETE
\* failed: a row of the earlier run, for an application that is not in this
\* run, is still stored beside a row of this run
C15_Witness ==
    /\ rank_call # None
    /\ rank_call[1].result.status = "success"
    /\ LET J == rank_call[1].task_data.job_id
           input == rank_call[1].task_data.comparison_results
       IN /\ RowsOf(rankings, J) \ rank_call[1].before # {}
          /\ \E r \in RowsOf(rankings, J) \cap rank_call[1].before :
                 r.application_id \notin
                     {input[i].application_id : i \in 1..Len(input)}

-----------------------------------------------------------------------------
(* ComparisonAgent.compare_job_applications.  The database, the text
   extraction and the oracle (gemini_service.compare_resume_job) are
   collaborators: what they give for an application is an input. *)

\* a row of _get_job_applications: whether resume_text holds more than 10
\* characters, and whether resume_path is set
Application(id, stored_text, resume_path) ==
    [id |-> id, stored_text |-> stored_text, resume_path |-> resume_path]

\* the dict compare_resume_job returns
Comparison(similarity_score, details) ==
    [similarity_score |-> similarity_score, details |-> details]

\* what the oracle does for one call: it returns the parsed answer of the
\* model, or its fallback comparison after a failure of its own
\* (_create_fallback_comparison, with the text similarity it computes), or it
\* raises
Parsed(comparison) == [kind |-> "parsed", comparison |-> comparison]

\* _create_fallback_comparison: the sub-structures follow basic_similarity
fallback_comparison(basic_similarity) ==
    Comparison(Num(basic_similarity),
        ComparisonDetails("dict", EmptySkills,
            ExperienceMatch("dict", Num(Min(basic_similarity + 100, SCORE_ONE))),
            EducationMatch("dict", basic_similarity > 300),
            OverallAssessment("dict",
                IF basic_similarity > 400 THEN "recommended"
                ELSE IF basic_similarity > 200 THEN "consider"
                ELSE "not_recommended")))

Fallback(basic_similarity) ==
    [kind |-> "fallback", comparison |-> fallback_comparison(basic_similarity)]

OracleRaises == [kind |-> "raises", comparison |-> fallback_comparison(0)]

\* _create_error_comparison_result, _create_minimal_comparison_result: the
\* fields the ranking reads are the same in both
error_comparison_result ==
    ComparisonDetails("dict", SkillsMatch("dict", List(0), List(0)),
                      ExperienceMatch("dict", Num(0)),
                      EducationMatch("dict", FALSE),
                      OverallAssessment("dict", "not_recommended"))

\* _get_resume_text(app): where the text comes from.  extraction is what
\* extract_text_from_file does: "text", "short" (nothing usable) or "raises"
get_resume_text(app, extraction) ==
    IF app.stored_text THEN "stored"
    ELSE IF app.resume_path /\ extraction = "text" THEN "extracted"
    ELSE "fallback"

\* len(resume_text.strip()) < 10: each of the three texts is longer
resume_text_short(text) == text \notin {"stored", "extracted", "fallback"}

\* _validate_comparison_result(comparison)
validate_comparison_result(comparison) ==
    LET d == comparison.details
        fill(sub, default) == IF sub.tag = "missing" THEN default ELSE sub
    IN Comparison(
           IF comparison.similarity_score.tag = "num"
           THEN Num(clamp01(comparison.similarity_score.num)) ELSE Num(0),
           ComparisonDetails("dict",
               fill(d.skills_match, SkillsMatch("dict", List(0), List(0))),
               fill(d.experience_match, ExperienceMatch("dict", Num(0))),
               fill(d.education_match, EducationMatch("dict", FALSE)),
               fill(d.overall_assessment,
                    OverallAssessment("dict", "not_recommended"))))

\* the except branch of the loop without its append to the list built so far
append_failed_discarding(comparison_results, app) ==
    <<ComparisonResult(app.id, Num(0), error_comparison_result)>>

\* the except branch of the loop: the failed application is appended
append_failed(comparison_results, app) ==
    Append(comparison_results,
           ComparisonResult(app.id, Num(0), error_comparison_result))

\* one pass of the loop body over app
compare_application(comparison_results, app, outcome) ==
    LET resume_text == get_resume_text(app, outcome.extraction) IN
    IF resume_text_short(resume_text)
    THEN Append(comparison_results,
                ComparisonResult(app.id, Num(0), error_comparison_result))
    ELSE IF outcome.oracle.kind = "raises"
    THEN append_failed(comparison_results, app)
    ELSE LET comparison == validate_comparison_result(outcome.oracle.comparison)
         IN Append(comparison_results,
                   ComparisonResult(app.id, comparison.similarity_score,
                                    comparison.details))

\* for i, app in enumerate(applications, 1), from application i on
RECURSIVE compare_loop(_, _, _, _)
compare_loop(comparison_results, applications, outcomes, i) ==
    IF i > Len(applications) THEN comparison_results
    ELSE compare_loop(compare_application(comparison_results, applications[i],
                                          outcomes[i]),
                      applications, outcomes, i + 1)

CompareResult(status, message, comparison_results) ==
    [status |-> status, message |-> message,
     comparison_results |-> comparison_results]

\* compare_job_applications(task_data): job_found is whether
\* _get_job_details returns a row, applications what _get_job_applications
\* returns, outcomes what the collaborators do for each application
compare_job_applications(task_data, job_found, applications, outcomes) ==
    IF task_data.job_id = 0 THEN CompareResult("error", "Job ID required", <<>>)
    ELSE IF ~job_found THEN CompareResult("error", "Job not found", <<>>)
    ELSE IF applications = <<>>
    THEN CompareResult("error", "No applications found for this job", <<>>)
    ELSE CompareResult("success", "",
                       compare_loop(<<>>, applications, outcomes, 1))

(* Inputs of compare_job_applications *)

ApplicationInputs(id) ==
    {Application(id, TRUE, TRUE), Application(id, FALSE, TRUE),
     Application(id, FALSE, FALSE)}

\* answers of the model: a similarity within [0,1], one above it, one that
\* is no number; the sub-structures given or left out
OracleOutcomes ==
    {Parsed(Comparison(s, d)) :
        s \in {Num(700), Num(1500), Text},
        d \in {DetailsOf("dict"),
               ComparisonDetails("dict", EmptySkills, EmptyExperience,
                   EmptyEducation, OverallAssessment("dict", "recommended"))}}
    \cup {Fallback(0), Fallback(300), OracleRaises}

Outcomes ==
    [extraction : {"text", "short", "raises"}, oracle : OracleOutcomes]

\* the lists of n applications with distinct ids, with what happens to each
ApplicationLists(n) ==
    {l \in [1..n -> UNION {ApplicationInputs(a) : a \in ApplicationIds}] :
        \A i, j \in 1..n : i # j => l[i].id # l[j].id}

InitComparison ==
    /\ now = 0
    /\ registered_agents = [a \in {} |-> 0]
    /\ msgs = <<>>
    /\ message_history = <<>>
    /\ failed_messages = <<>>
    /\ retry_threads = {}
    /\ stack = <<>>
    /\ log = <<>>
    /\ last_reject = NoReject
    /\ WorkersIdle

\* compare_job_applications(task_data) is called and returns
CompareJobApplications ==
    /\ compare_call = None
    /\ \E job_id \in {0, 1}, job_found \in BOOLEAN,
          n \in 0..Cardinality(ApplicationIds) :
       \E applications \in ApplicationLists(n), outcomes \in [1..n -> Outcomes] :
           compare_call' =
               Some([task_data |-> [job_id |-> job_id],
                     job_found |-> job_found,
                     applications |-> applications,
                     outcomes |-> outcomes,
                     result |-> compare_job_applications([job_id |-> job_id],
                                    job_found, applications, outcomes)])
    /\ UNCHANGED <<score_result, score_returned, rankings, rank_call, payloads,
                   handlers, emails, pipeline_run>>
    /\ UNCHANGED bus_vars

NextComparison == CompareJobApplications

SpecComparison == InitComparison /\ [][NextComparison]_vars

\* the call was made for a job that exists and has applications
JobWithApplications ==
    /\ compare_call # None
    /\ compare_call[1].task_data.job_id # 0
    /\ compare_call[1].job_found
    /\ compare_call[1].applications # <<>>

\* a per-application step of application i failed: the text extraction that
\* was needed, or the oracle
StepFailed(i) ==
    LET app == compare_call[1].applications[i]
        outcome == compare_call[1].outcomes[i]
    IN \/ ~app.stored_text /\ app.resume_path /\ outcome.extraction # "text"
       \/ outcome.oracle.kind # "parsed"

-----------------------------------------------------------------------------
(* The pipeline: the receive_message of the three worker agents on the bus.
   The agents are registered without message_handler (BaseAgent.__init__),
   so _deliver_message_sync calls their receive_message.  receive_message
   catches every exception, so these handlers return. *)

\* a call from outside (a REQUEST sent through the bus, or a process_task)
\* is made MaxPipelineRuns times at most
MaxPipelineRuns == 1

\* top_candidates = rankings[:3]
TOP_CANDIDATES == 3

Workers == {"comparison_agent", "ranking_agent", "communication_agent"}

\* the payload of a REQUEST, and the argument of process_task
TaskData(action, job_id, comparison_results, ranked) ==
    [action |-> action, job_id |-> job_id,
     comparison_results |-> comparison_results, rankings |-> ranked]

\* the dict a worker returns; total is its total_applications
Result(status, message, total, comparison_results, ranked) ==
    [status |-> status, message |-> message, total |-> total,
     comparison_results |-> comparison_results, rankings |-> ranked]

NoResult == Result("none", "", 0, <<>>, <<>>)

\* message_type, payload and correlation_id of an AgentMessage: a task for a
\* REQUEST, a result for a RESPONSE or an ERROR; a correlation_id is None or
\* the message_id of another message
RequestPayload(task_data, correlation_id) ==
    [message_type |-> "REQUEST", task_data |-> task_data, result |-> NoResult,
     correlation_id |-> correlation_id]

\* a send_message of BaseAgent that leaves correlation_id at its default
ReplyPayloadUncorrelated(message_type, result, correlation_id) ==
    [message_type |-> message_type,
     task_data |-> TaskData("", 0, <<>>, <<>>), result |-> result,
     correlation_id |-> None]

\* BaseAgent.send_message(receiver, message_type, payload, correlation_id)
ReplyPayload(message_type, result, correlation_id) ==
    [message_type |-> message_type,
     task_data |-> TaskData("", 0, <<>>, <<>>), result |-> result,
     correlation_id |-> correlation_id]

\* what the collaborators do during one call of a worker: the job lookup,
\* the applications of the job and their comparisons, the DELETE and the
\* INSERTs on the rankings table, the email transport
Environment(job_found, applications, outcomes, clear_fails, save_fails, email) ==
    [job_found |-> job_found, applications |-> applications,
     outcomes |-> outcomes, clear_fails |-> clear_fails,
     save_fails |-> save_fails, email |-> email]

\* what the email collaborator does when _send_email is called: no SMTP
\* configuration, the transport raises, the transport sends
EmailOutcomes == {"unconfigured", "raises", "sent"}

\* a _send_email that reports the failure of the transport
send_email_reporting(email) == email # "raises"

\* what _send_email returns: True after the simulated send, True after the
\* real send, and True from its except branch
send_email(email) ==
    IF email = "unconfigured" THEN TRUE
    ELSE IF email = "sent" THEN TRUE
    ELSE TRUE

\* what became of the email: sent, or only logged
delivery(email) ==
    IF email = "unconfigured" THEN "simulated"
    ELSE IF email = "sent" THEN "sent"
    ELSE "fallback_simulated"

\* what a call of a worker leaves: its result, the rankings table, the
\* emails sent
Effect(result, table, mails) ==
    [result |-> result, rankings |-> table, emails |-> mails]

\* CommunicationAgent.send_ranking_notification(task_data); _send_email
\* returns True whatever the transport does
send_ranking_notification(task_data, job_found, email, mails) ==
    IF task_data.job_id = 0
    THEN Effect(Result("error", "Job ID required", 0, <<>>, <<>>), {}, mails)
    ELSE IF ~job_found
    THEN Effect(Result("error", "Job not found", 0, <<>>, <<>>), {}, mails)
    ELSE LET top_candidates ==
                 SubSeq(task_data.rankings, 1,
                        Min(TOP_CANDIDATES, Len(task_data.rankings)))
             variant == IF top_candidates # <<>> THEN "top_candidates"
                        ELSE "no_suitable_candidates"
             called == Append(mails, [variant |-> variant,
                                      job_id |-> task_data.job_id,
                                      candidates |-> top_candidates,
                                      delivery |-> delivery(email)])
         IN IF send_email(email)
            THEN Effect(Result("success",
                               "Ranking notification sent successfully",
                               0, <<>>, <<>>), {}, called)
            ELSE Effect(Result("error", "Failed to send email", 0, <<>>, <<>>),
                        {}, called)

\* the business call of each worker, on the table and the emails it finds
compare_task(task_data, env, table, mails) ==
    LET r == compare_job_applications(task_data, env.job_found,
                                      env.applications, env.outcomes)
    IN Effect(Result(r.status, r.message,
                     IF r.status = "success" THEN Len(env.applications) ELSE 0,
                     r.comparison_results, <<>>),
              table, mails)

rank_task(task_data, env, table, mails) ==
    LET out == rank_applications(table, task_data, env.clear_fails,
                                 env.save_fails)
    IN Effect(Result(out.result.status, out.result.message, 0, <<>>,
                     out.result.rankings),
              out.table, mails)

notify_task(task_data, env, table, mails) ==
    LET out == send_ranking_notification(task_data, env.job_found, env.email,
                                         mails)
    IN Effect(out.result, table, out.emails)

\* process_task(task_data) of each worker: Comparison and Ranking do not
\* look at the action
process_task(agent, task_data, env, table, mails) ==
    IF agent = "comparison_agent" THEN compare_task(task_data, env, table, mails)
    ELSE IF agent = "ranking_agent" THEN rank_task(task_data, env, table, mails)
    ELSE IF task_data.action = "send_ranking_notification"
    THEN notify_task(task_data, env, table, mails)
    ELSE Effect(Result("error", "Unknown task action", 0, <<>>, <<>>), table, mails)

\* the action each worker answers to
ActionOf(agent) ==
    IF agent = "comparison_agent" THEN "compare_applications"
    ELSE IF agent = "ranking_agent" THEN "rank_applications"
    ELSE "send_ranking_notification"

\* the REQUEST branch of receive_message up to its reply: the result, and
\* the message_type it is sent back with
receive_request(agent, task_data, env, table, mails) ==
    IF task_data.action = ActionOf(agent)
    THEN [reply |-> "RESPONSE",
          effect |-> process_task(agent, task_data, env, table, mails)]
    ELSE [reply |-> IF agent = "communication_agent" THEN "RESPONSE" ELSE "ERROR",
          effect |-> Effect(Result("error", "Unknown action", 0, <<>>, <<>>),
                            table, mails)]

\* the stage a worker sends its REQUEST to
NextStage(agent) ==
    IF agent = "comparison_agent" THEN "ranking_agent" ELSE "communication_agent"

\* a worker that sends on whatever its result is
chains_always(agent, result) == agent # "communication_agent"

\* the test before the REQUEST to the next stage: result['status'] ==
\* 'success' and the list of the result is not empty
chains(agent, result) ==
    /\ agent # "communication_agent"
    /\ result.status = "success"
    /\ IF agent = "comparison_agent" THEN result.comparison_results # <<>>
       ELSE result.rankings # <<>>

\* the payload of that REQUEST
chained_task(agent, task_data, result) ==
    IF agent = "comparison_agent"
    THEN TaskData("rank_applications", task_data.job_id,
                  result.comparison_results, <<>>)
    ELSE TaskData("send_ranking_notification", task_data.job_id, <<>>,
                  result.rankings)

\* a frame of receive_message
Handler(pc, reply, result) == [pc |-> pc, reply |-> reply, result |-> result]

(* Inputs of the pipeline *)

\* the answers of the oracle in a pipeline run: similarity 0 with nothing
\* else, similarity 0 with a recommendation, similarity 0.7
PipelineOutcomes ==
    {[extraction |-> "text", oracle |-> Parsed(Comparison(sim, d))] :
        sim \in {Num(0)}, d \in {DetailsOf("dict"),
            ComparisonDetails("dict", EmptySkills, EmptyExperience,
                EmptyEducation, OverallAssessment("dict", "recommended"))}}
    \cup {[extraction |-> "text",
           oracle |-> Parsed(Comparison(Num(700), DetailsOf("dict")))]}

NoEnvironment == Environment(FALSE, <<>>, <<>>, FALSE, {}, "sent")

\* what the collaborators may do during the call of agent for task_data
Environments(agent, task_data) ==
    IF task_data.action # ActionOf(agent) THEN {NoEnvironment}
    ELSE IF agent = "comparison_agent"
    THEN {NoEnvironment} \cup
         {Environment(TRUE, [i \in 1..n |-> Application(i, TRUE, TRUE)], o,
                      FALSE, {}, "sent") :
             n \in 0..Cardinality(ApplicationIds),
             o \in UNION {[1..k -> PipelineOutcomes] :
                              k \in 0..Cardinality(ApplicationIds)}}
    ELSE IF agent = "ranking_agent"
    THEN {Environment(FALSE, <<>>, <<>>, c, f, "sent") :
             c \in IF Persists(task_data) THEN BOOLEAN ELSE {FALSE},
             f \in IF Persists(task_data)
                   THEN SUBSET (1..Len(task_data.comparison_results))
                   ELSE {{}}}
    ELSE {NoEnvironment} \cup
         {Environment(TRUE, <<>>, <<>>, FALSE, {}, e) : e \in EmailOutcomes}

\* the outcomes of an environment are those of its applications
Consistent(env) == Len(env.outcomes) = Len(env.applications)

\* the tasks given to a worker from outside
TaskInputs(agent) ==
    IF agent = "comparison_agent"
    THEN {TaskData(a, j, <<>>, <<>>) :
             a \in {"compare_applications", "unknown"}, j \in {0, 1}}
    ELSE IF agent = "ranking_agent"
    THEN {TaskData(a, 1, l, <<>>) :
             a \in {"rank_applications", "unknown"},
             l \in {<<>>, <<Plain(1, 0)>>}}
    ELSE {TaskData(a, 1, <<>>, l) :
             a \in {"send_ranking_notification", "unknown"},
             l \in {<<>>, <<FormattedRanking(Ranking(1, 1, 500, 1))>>}}

\* the three workers are registered, each with the capability of its action,
\* as AdminCLI.__init__ leaves them
InitPipeline ==
    /\ now = 0
    /\ registered_agents =
           [a \in Workers |-> AgentRegistration(Some(<<ActionOf(a)>>))]
    /\ msgs = <<>>
    /\ message_history = <<>>
    /\ failed_messages = <<>>
    /\ retry_threads = {}
    /\ stack = <<>>
    /\ log = <<>>
    /\ last_reject = NoReject
    /\ WorkersIdle

RunsMade == IF pipeline_run = None THEN 0 ELSE pipeline_run[1].run

PipelineRun(via, agent, task_data) ==
    Some([run |-> RunsMade + 1, via |-> via, agent |-> agent,
          task_data |-> task_data, first |-> Len(msgs) + 1,
          rankings |-> rankings, emails |-> emails,
          result |-> NoResult])

\* the handlers after send_message(m) was called by the handler on top,
\* which goes on at pc when the call returns: a registered receiver's
\* receive_message begins
handlers_after_send(m, pc) ==
    LET mine == IF handlers = <<>> THEN <<>>
                ELSE [handlers EXCEPT ![Len(handlers)].pc = pc]
    IN IF m.receiver \in DOMAIN registered_agents
       THEN Append(mine, Handler("start", "", NoResult))
       ELSE mine

\* a caller outside the agents sends a REQUEST to a worker
ExternalRequest ==
    /\ LockFree
    /\ RunsMade < MaxPipelineRuns
    /\ \E agent \in Workers : \E task_data \in TaskInputs(agent) :
       LET m == AgentMessage("cli", agent, TRUE, None) IN
       /\ send_message(m, Len(msgs) + 1)
       /\ payloads' = Append(payloads, RequestPayload(task_data, None))
       /\ handlers' = handlers_after_send(m, "")
       /\ pipeline_run' = PipelineRun("bus", agent, task_data)
    /\ UNCHANGED <<score_result, score_returned, rankings, rank_call,
                   compare_call, emails>>

\* receive_message begins: for a REQUEST the worker makes its business call,
\* any other message it lets pass
HandlerLogic ==
    /\ InHandler
    /\ Last(handlers).pc = "start"
    /\ LET f == Last(stack)
           p == payloads[f.msg]
       IN IF p.message_type # "REQUEST"
          THEN /\ handlers' = [handlers EXCEPT ![Len(handlers)].pc = "end"]
               /\ UNCHANGED <<rankings, emails>>
          ELSE \E env \in Environments(f.receiver, p.task_data) :
               /\ Consistent(env)
               /\ LET got == receive_request(f.receiver, p.task_data, env,
                                             rankings, emails)
                  IN /\ handlers' = [handlers EXCEPT ![Len(handlers)] =
                            Handler("respond", got.reply, got.effect.result)]
                     /\ rankings' = got.effect.rankings
                     /\ emails' = got.effect.emails
    /\ UNCHANGED <<score_result, score_returned, rank_call, compare_call,
                   payloads, pipeline_run>>
    /\ UNCHANGED bus_vars

\* self.send_message(message.sender, RESPONSE or ERROR, result,
\* message.message_id)
HandlerRespond ==
    /\ InHandler
    /\ Last(handlers).pc = "respond"
    /\ LET f == Last(stack)
           h == Last(handlers)
           m == AgentMessage(f.receiver, msgs[f.msg].sender, TRUE, None)
       IN /\ send_message(m, Len(msgs) + 1)
          /\ payloads' = Append(payloads,
                 ReplyPayload(h.reply, h.result, Some(f.msg)))
          /\ handlers' = handlers_after_send(m, "chain")
    /\ UNCHANGED <<score_result, score_returned, rankings, rank_call,
                   compare_call, emails, pipeline_run>>

\* after its reply a worker whose call succeeded sends the REQUEST of the
\* next stage through self.protocol.send_message, with
\* correlation_id=message.message_id
HandlerChain ==
    /\ InHandler
    /\ Last(handlers).pc = "chain"
    /\ LET f == Last(stack)
           h == Last(handlers)
           m == AgentMessage(f.receiver, NextStage(f.receiver), TRUE, None)
       IN IF chains(f.receiver, h.result)
          THEN /\ send_message(m, Len(msgs) + 1)
               /\ payloads' = Append(payloads,
                      RequestPayload(chained_task(f.receiver,
                          payloads[f.msg].task_data, h.result), Some(f.msg)))
               /\ handlers' = handlers_after_send(m, "end")
          ELSE /\ handlers' = [handlers EXCEPT ![Len(handlers)].pc = "end"]
               /\ UNCHANGED payloads
               /\ UNCHANGED bus_vars
    /\ UNCHANGED <<score_result, score_returned, rankings, rank_call,
                   compare_call, emails, pipeline_run>>

\* receive_message returns to _deliver_message_sync
HandlerEnd ==
    /\ InHandler
    /\ Last(handlers).pc = "end"
    /\ HandlerReturn
    /\ handlers' = Front(handlers)
    /\ UNCHANGED <<score_result, score_returned, rankings, rank_call,
                   compare_call, payloads, emails, pipeline_run>>

\* a caller outside the agents calls process_task of a worker
ProcessTask ==
    /\ LockFree
    /\ RunsMade < MaxPipelineRuns
    /\ \E agent \in Workers : \E task_data \in TaskInputs(agent) :
       \E env \in Environments(agent,
                     [task_data EXCEPT !.action = ActionOf(agent)]) :
       /\ Consistent(env)
       /\ LET got == process_task(agent, task_data, env, rankings, emails)
          IN /\ rankings' = got.rankings
             /\ emails' = got.emails
             /\ pipeline_run' =
                    Some([PipelineRun("direct", agent, task_data)[1]
                              EXCEPT !.result = got.result])
    /\ UNCHANGED <<score_result, score_returned, rank_call, compare_call,
                   payloads, handlers>>
    /\ UNCHANGED bus_vars

NextPipeline ==
    \/ ExternalRequest
    \/ HandlerLogic
    \/ HandlerRespond
    \/ HandlerChain
    \/ HandlerEnd
    \/ ProcessTask

SpecPipeline == InitPipeline /\ [][NextPipeline]_vars

-----------------------------------------------------------------------------
(* Claims about the pipeline *)

\* the run in progress was started by a compare REQUEST sent through the bus
CompareRunOnBus ==
    /\ pipeline_run # None
    /\ pipeline_run[1].via = "bus"
    /\ pipeline_run[1].agent = "comparison_agent"
    /\ pipeline_run[1].task_data.action = "compare_applications"

\* the messages of the run in progress
RunMessages == pipeline_run[1].first .. Len(msgs)

\* the frames of receive_message called with the REQUEST a stage sent on
ChainedFrames(stage) ==
    {i \in 1..Len(stack) :
        /\ stack[i].receiver = NextStage(stage)
        /\ msgs[stack[i].msg].sender = stage
        /\ payloads[stack[i].msg].message_type = "REQUEST"}

\* every ranking of the list has its row in the table
Stored(job_id, ranked) ==
    \A k \in 1..Len(ranked) :
        Ranking(job_id, ranked[k].application_id, ranked[k].similarity_score,
                ranked[k].rank) \in rankings

\* the communication stage has answered with a success
ChainCompleted ==
    \E i \in RunMessages :
        /\ msgs[i].sender = "communication_agent"
        /\ payloads[i].result.status = "success"

\* a stage has answered with an error result
StageFailed ==
    \E i \in RunMessages :
        /\ payloads[i].message_type # "REQUEST"
        /\ payloads[i].result.status = "error"

\* C16: in a run started by a compare REQUEST sent through the bus, the
\* Ranking handler runs only inside a Comparison handler that has computed the
\* results of all its applications and passed them on, the Communication
\* handler runs only inside a Ranking handler whose rankings are stored, and
\* the first send_message has returned only when no handler is running and
\* either the Communication stage has answered or a stage has failed.
C16_StagesInOrder ==
    CompareRunOnBus =>
    /\ \A i \in ChainedFrames("comparison_agent") :
           /\ i > 1
           /\ stack[i-1].receiver = "comparison_agent"
           /\ handlers[i-1].pc = "end"
           /\ handlers[i-1].result.status = "success"
           /\ handlers[i-1].result.total >= 1
           /\ Len(handlers[i-1].result.comparison_results)
                  = handlers[i-1].result.total
           /\ payloads[stack[i].msg].task_data.comparison_results
                  = handlers[i-1].result.comparison_results
    /\ \A i \in ChainedFrames("ranking_agent") :
           /\ i > 2
           /\ stack[i-1].receiver = "ranking_agent"
           /\ (i - 1) \in ChainedFrames("comparison_agent")
           /\ handlers[i-1].pc = "end"
           /\ handlers[i-1].result.status = "success"
           /\ handlers[i-1].result.rankings # <<>>
           /\ Stored(payloads[stack[i].msg].task_data.job_id,
                     handlers[i-1].result.rankings)
           /\ payloads[stack[i].msg].task_data.rankings
                  = handlers[i-1].result.rankings
    /\ log[pipeline_run[1].first].ret # "none" =>
           /\ stack = <<>>
           /\ handlers = <<>>
           /\ ChainCompleted \/ StageFailed

\* the Communication handler has begun, inside Ranking inside Comparison
C16_Witness ==
    /\ CompareRunOnBus
    /\ Len(stack) = 3
    /\ 3 \in ChainedFrames("ranking_agent")
    /\ 2 \in ChainedFrames("comparison_agent")
    /\ handlers[3].pc = "start"

\* the activations of receive_message whose business call gave an error result
FailedHandlers ==
    {k \in 1..Len(handlers) : handlers[k].result.status = "error"}

\* the activation above k was called with the REQUEST k sent to its next stage
ChainedFrom(k) ==
    /\ k < Len(stack)
    /\ stack[k].receiver \in {"comparison_agent", "ranking_agent"}
    /\ (k + 1) \in ChainedFrames(stack[k].receiver)

\* C17: a stage whose handling of a REQUEST gave an error result (missing job
\* id, job not found, no applications, nothing to rank, unknown action)
\* answers its requester with a message of kind ERROR and sends no REQUEST
\* to the next stage.
C17_FailedStageRepliesError ==
    \A k \in FailedHandlers :
        /\ handlers[k].reply = "ERROR"
        /\ ~ChainedFrom(k)

\* a stage has answered a REQUEST whose handling gave an error result
C17_Witness ==
    \E k \in FailedHandlers :
        /\ handlers[k].pc = "chain"
        /\ payloads[Len(payloads)].result = handlers[k].result
        /\ msgs[Len(msgs)].sender = stack[k].receiver

\* the answers a stage has given in the run in progress
RepliesOf(stage) ==
    {i \in RunMessages :
        msgs[i].sender = stage /\ payloads[i].message_type # "REQUEST"}

\* the Comparison stage has answered with a success in which every
\* application has similarity 0, no stage has failed, and the first
\* send_message has returned
AllZeroRunReturned ==
    /\ CompareRunOnBus
    /\ log[pipeline_run[1].first].ret # "none"
    /\ ~StageFailed
    /\ \E i \in RepliesOf("comparison_agent") :
           LET r == payloads[i].result IN
           /\ r.status = "success"
           /\ r.total >= 1
           /\ \A k \in 1..Len(r.comparison_results) :
                  r.comparison_results[k].similarity_score = Num(0)

\* the emails dispatched in the run in progress
RunEmails == SubSeq(emails, Len(pipeline_run[1].emails) + 1, Len(emails))

\* C18: in a pipeline run where Comparison succeeds for a job with N >= 1
\* applications that all have similarity 0, Ranking succeeds with a ranking
\* of all N applications (enhanced scores 0, positions 1..N), Communication
\* is invoked and does not fail, and the notification it dispatches is the
\* "no suitable candidates" variant.
C18_NoSuitableCandidates ==
    AllZeroRunReturned =>
    /\ \E i \in RepliesOf("comparison_agent") :
       \E j \in RepliesOf("ranking_agent") :
           LET ranked == payloads[j].result.rankings IN
           /\ payloads[j].result.status = "success"
           /\ Len(ranked) = payloads[i].result.total
           /\ \A k \in 1..Len(ranked) :
                  ranked[k].rank = k /\ ranked[k].similarity_score = 0
    /\ \E j \in RepliesOf("communication_agent") :
           payloads[j].result.status = "success"
    /\ Len(RunEmails) = 1
    /\ RunEmails[1].variant = "no_suitable_candidates"

\* such a run has returned: both applications are ranked at score 0 and
\* Communication has dispatched a notification that lists them
C18_Witness ==
    /\ AllZeroRunReturned
    /\ \E j \in RepliesOf("ranking_agent") :
           /\ Len(payloads[j].result.rankings) = 2
           /\ \A k \in 1..2 :
                  /\ payloads[j].result.rankings[k].rank = k
                  /\ payloads[j].result.rankings[k].similarity_score = 0
    /\ Len(RunEmails) = 1
    /\ Len(RunEmails[1].candidates) = 2

\* a REQUEST sent through the bus has been handled and its send_message has
\* returned
BusRunReturned ==
    /\ pipeline_run # None
    /\ pipeline_run[1].via = "bus"
    /\ log[pipeline_run[1].first].ret # "none"

\* the agents a run has invoked after the one it was addressed to
DownstreamInvoked ==
    {msgs[i].receiver : i \in {j \in RunMessages :
        j > pipeline_run[1].first /\ payloads[j].message_type = "REQUEST"}}

\* what process_task of the worker may leave when it is called with the task
\* of the run on the table and the emails the run began with; it calls no
\* other agent
DirectEffects ==
    LET run == pipeline_run[1]
    IN {process_task(run.agent, run.task_data, env, run.rankings, run.emails) :
           env \in {e \in Environments(run.agent,
                       [run.task_data EXCEPT !.action = ActionOf(run.agent)]) :
                       Consistent(e)}}

\* C19: handling a REQUEST that carries a task input has the business effect
\* of process_task called with the same input: the same rankings are stored,
\* the same notifications are dispatched, and the same downstream agents are
\* invoked (process_task invokes none).
C19_BusEqualsDirect ==
    BusRunReturned =>
    /\ DownstreamInvoked = {}
    /\ \E effect \in DirectEffects :
           /\ effect.rankings = rankings
           /\ effect.emails = emails

\* a compare REQUEST sent through the bus has returned after the whole chain
\* ran: rankings are stored and a notification is dispatched
C19_Witness ==
    /\ BusRunReturned
    /\ pipeline_run[1].agent = "comparison_agent"
    /\ DownstreamInvoked = {"ranking_agent", "communication_agent"}
    /\ rankings # pipeline_run[1].rankings
    /\ emails # pipeline_run[1].emails

\* the activations of CommunicationAgent.receive_message that have made
\* their send_ranking_notification call
NotificationHandlers ==
    {k \in 1..Len(handlers) :
        /\ stack[k].receiver = "communication_agent"
        /\ payloads[stack[k].msg].message_type = "REQUEST"
        /\ payloads[stack[k].msg].task_data.action = "send_ranking_notification"
        /\ handlers[k].pc # "start"}

\* the error results send_ranking_notification gives before it reaches
\* _send_email
BeforeEmail == {"Job ID required", "Job not found", "Unknown task action"}

\* C21: the ranking notification never fails because of the email
\* collaborator: once _send_email has been called (the job exists), whether
\* email is unconfigured, the transport raises or the send succeeds,
\* send_ranking_notification returns success and the reply of the stage
\* reports success; its only error results are those given before any email
\* is attempted.
C21_EmailNeverFailsNotification ==
    pipeline_run # None =>
    /\ \A k \in NotificationHandlers :
           /\ RunEmails # <<>> =>
                  /\ handlers[k].result.status = "success"
                  /\ handlers[k].reply = "RESPONSE"
           /\ handlers[k].result.status = "error" =>
                  /\ handlers[k].result.message \in BeforeEmail
                  /\ RunEmails = <<>>
    /\ \A i \in RepliesOf("communication_agent") :
           RunEmails # <<>> => payloads[i].result.status = "success"
    /\ (pipeline_run[1].via = "direct"
            /\ pipeline_run[1].agent = "communication_agent") =>
           /\ RunEmails # <<>> => pipeline_run[1].result.status = "success"
           /\ pipeline_run[1].result.status = "error" =>
                  /\ pipeline_run[1].result.message \in BeforeEmail
                  /\ RunEmails = <<>>

\* the transport raised, the email was only logged, and the stage has
\* answered its requester with a success
C21_Witness ==
    /\ pipeline_run # None
    /\ Len(RunEmails) = 1
    /\ RunEmails[1].delivery = "fallback_simulated"
    /\ \E i \in RepliesOf("communication_agent") :
           /\ payloads[i].message_type = "RESPONSE"
           /\ payloads[i].result.status = "success"
           /\ msgs[i].receiver = "ranking_agent"

-----------------------------------------------------------------------------
(* Claims about the normalisation of the oracle's answer *)

\* the applications of the call whose oracle answer went through
\* _validate_comparison_result
Normalised ==
    IF ~JobWithApplications THEN {}
    ELSE {i \in 1..Len(compare_call[1].applications) :
             compare_call[1].outcomes[i].oracle.kind # "raises"}

\* the sub-structures the oracle's answer for application i left out
FilledIn(i) ==
    LET given == compare_call[1].outcomes[i].oracle.comparison.details
    IN {sub \in {"skills_match", "experience_match", "education_match",
                 "overall_assessment"} : given[sub].tag = "missing"}

\* the result with the sub-structures of subs absent
Without(result, subs) ==
    LET d == result.comparison_details
        absent(sub) == IF sub \in subs THEN [d[sub] EXCEPT !.tag = "missing"]
                       ELSE d[sub]
    IN ComparisonResult(result.application_id, result.similarity_score,
           ComparisonDetails(d.tag, absent("skills_match"),
               absent("experience_match"), absent("education_match"),
               absent("overall_assessment")))

\* C22: normalisation yields a similarity within [0,1] (0 for an invalid
\* one, the nearest bound for one out of range), and the defaults it fills in
\* for missing sub-structures are neutral: the enhanced score of the
\* normalised result is the one computed with those sub-structures absent.
C22_NeutralDefaults ==
    \A i \in Normalised :
        LET result == compare_call[1].result.comparison_results[i]
        IN /\ result.similarity_score.tag = "num"
           /\ result.similarity_score.num \in 0..SCORE_ONE
           /\ \A sub \in FilledIn(i) :
                  calculate_enhanced_score(result) =
                      calculate_enhanced_score(Without(result, {sub}))

\* an answer of similarity 0.7 without overall_assessment was normalised
C22_Witness ==
    \E i \in Normalised :
        /\ "overall_assessment" \in FilledIn(i)
        /\ compare_call[1].result.comparison_results[i].similarity_score
               = Num(700)
        /\ compare_call[1].result.comparison_results[i]
               .comparison_details.overall_assessment.tag = "dict"

-----------------------------------------------------------------------------
(* Claims about the background tasks and the retries of the bus *)

\* C23: a pass of the monitor changes nothing but the status of the agents
\* that are ACTIVE with a heartbeat older than 2 x A2A_MESSAGE_TIMEOUT, which
\* become INACTIVE: an ACTIVE agent whose heartbeat age is at most 2 x the
\* timeout stays ACTIVE, an agent that is BUSY, INACTIVE or ERROR is left as
\* it is, no registration is removed, and last_heartbeat, the history and
\* the failed messages are unchanged.
C23_MonitorFrame ==
    [][monitor_agent_heartbeats =>
        /\ DOMAIN registered_agents' = DOMAIN registered_agents
        /\ \A a \in DOMAIN registered_agents :
               LET reg == registered_agents[a]
                   age == now - reg.last_heartbeat
               IN /\ registered_agents'[a].last_heartbeat = reg.last_heartbeat
                  /\ registered_agents'[a].capabilities = reg.capabilities
                  /\ (reg.status = "ACTIVE" /\ age > 2 * A2A_MESSAGE_TIMEOUT)
                         => registered_agents'[a].status = "INACTIVE"
                  /\ (reg.status = "ACTIVE" /\ age <= 2 * A2A_MESSAGE_TIMEOUT)
                         => registered_agents'[a].status = "ACTIVE"
                  /\ reg.status # "ACTIVE"
                         => registered_agents'[a].status = reg.status
        /\ message_history' = message_history
        /\ failed_messages' = failed_messages
        /\ msgs' = msgs /\ retry_threads' = retry_threads]_vars

\* the monitor has just set INACTIVE an agent whose heartbeat is exactly
\* 2 x A2A_MESSAGE_TIMEOUT old
C23_Witness ==
    \E a \in DOMAIN registered_agents :
        /\ registered_agents[a].status = "INACTIVE"
        /\ now - registered_agents[a].last_heartbeat = 2 * A2A_MESSAGE_TIMEOUT

\* C24: expiry gates every new delivery attempt, those of scheduled retries
\* included: no handler runs for a message whose expires_at had passed when
\* the attempt began (the clock does not advance during a call).
C24_ExpiryGatesEveryAttempt ==
    \A i \in DOMAIN stack :
        (stack[i].op = "deliver" /\ stack[i].msg # 0) =>
            ~is_expired(msgs[stack[i].msg])

\* a retry_later thread has invoked the handler for a message that is expired
C24_Witness ==
    /\ InHandler
    /\ Last(stack).via = "retry"
    /\ is_expired(msgs[Last(stack).msg])
    /\ log[Last(stack).msg].calls >= 2

(* The bus under fair scheduling: time passes, a handler that was invoked
   returns or raises, a broadcast loop goes on to its end, and a retry_later
   thread whose sleep is over and that could take self._lock from then on
   does take it (weak fairness of the retry threads) *)
Fairness ==
    /\ SF_vars(Tick(MaxTicks) /\ UNCHANGED worker_vars)
    /\ WF_vars(RetryFire /\ UNCHANGED worker_vars)
    /\ WF_vars((HandlerReturn \/ HandlerRaise) /\ UNCHANGED worker_vars)
    /\ WF_vars((BroadcastStep \/ BroadcastDone) /\ UNCHANGED worker_vars)

\* a retry_later thread whose sleep is over gets self._lock when the lock
\* is free again and again, whoever else takes it in between
RetryGetsLock == SF_vars(RetryFire /\ UNCHANGED worker_vars)

\* a well-formed message and its retries through time, while its receiver
\* registers, unregisters and registers again
NextFair ==
    \/ Tick(MaxTicks) /\ UNCHANGED worker_vars
    \/ SendWellFormed(BusAgents, MaxMsgs) /\ UNCHANGED worker_vars
    \/ HandlerReturn /\ UNCHANGED worker_vars
    \/ HandlerRaise /\ UNCHANGED worker_vars
    \/ RetryFire /\ UNCHANGED worker_vars
    \/ Register(BusAgents, {None}) /\ UNCHANGED worker_vars
    \/ Unregister(BusAgents) /\ UNCHANGED worker_vars
    \/ BroadcastStep /\ UNCHANGED worker_vars
    \/ BroadcastDone /\ UNCHANGED worker_vars

SpecFair == Init /\ [][NextFair]_vars /\ Fairness

\* send_message accepted the message: it was valid and its receiver was
\* registered, so a first delivery was attempted
Accepted(id) == id \in DOMAIN log /\ log[id].calls >= 1

InArchive(id) == \E k \in DOMAIN failed_messages : failed_messages[k] = id

\* the message is delivered (one handler invocation for it has returned) or
\* it is in the failed archive, and not both
Terminal(id) ==
    /\ id \in DOMAIN log
    /\ (log[id].delivered = 1) # InArchive(id)

\* the clock of the model is at its last value with the sleep of the
\* message's retry_later thread not over: the run is cut there
HorizonReached(id) ==
    /\ now + TickStep > MaxTicks * TickStep
    /\ \E t \in retry_threads : t.msg = id /\ t.wake > now

\* never delivered and archived both, and neither more than once
AtMostOneTerminalState ==
    \A id \in DOMAIN log :
        /\ log[id].delivered <= 1
        /\ Cardinality({k \in DOMAIN failed_messages :
                           failed_messages[k] = id}) <= 1
        /\ ~(log[id].delivered >= 1 /\ InArchive(id))

PendingRetries(id) == {t \in retry_threads : t.msg = id}

\* C26: whatever the interleaving of senders, retry threads, heartbeats, the
\* monitor and the cleanup task, at most one retry thread of a message is
\* pending at any time, and no failure is counted or scheduled twice: the
\* retry count of the message is the number of retries scheduled for it so
\* far, never above A2A_MAX_RETRIES, and while a retry is pending no delivery
\* of the message is in progress and the message is neither delivered nor
\* archived.
C26_OneRetryPending ==
    \A id \in DOMAIN msgs :
        /\ Cardinality(PendingRetries(id)) <= 1
        /\ msgs[id].retry_count = Len(log[id].delays)
        /\ msgs[id].retry_count <= A2A_MAX_RETRIES
        /\ PendingRetries(id) # {} =>
               /\ \A i \in DOMAIN stack :
                      ~(stack[i].op = "deliver" /\ stack[i].msg = id)
               /\ log[id].delivered = 0
               /\ log[id].archived = 0
               /\ \A t \in PendingRetries(id) :
                      t.delay = RetryDelay(msgs[id].retry_count)

\* the third retry of a message is pending while the lock is free, after a
\* heartbeat of its receiver at this instant
C26_Witness ==
    /\ LockFree
    /\ \E t \in retry_threads :
           /\ msgs[t.msg].retry_count = A2A_MAX_RETRIES
           /\ msgs[t.msg].receiver \in DOMAIN registered_agents
           /\ registered_agents[msgs[t.msg].receiver].status = "ERROR"
           /\ registered_agents[msgs[t.msg].receiver].last_heartbeat = now
           /\ now > msgs[t.msg].timestamp

-----------------------------------------------------------------------------
(* The cleanup task on a bus that has run for an hour: histories around
   HISTORY_KEEP and HISTORY_LIMIT, failed messages around FAILED_RETENTION *)

\* the failed archive holds MaxFailed messages at most when the run begins
MaxFailed == 2
\* SpecReaper: the clock stops after this many periods
ReaperMaxTicks == 123

\* lengths of the history when the run begins
HistoryLengths ==
    {0, 1, HISTORY_KEEP, HISTORY_KEEP + 1, HISTORY_LIMIT - 1, HISTORY_LIMIT,
     HISTORY_LIMIT + 1, HISTORY_LIMIT + HISTORY_KEEP}

\* creation times of the failed messages: a period less than the retention
\* before the run begins, exactly the retention before, a period more
FailedTimestamps == {0, TickStep, 2 * TickStep}

\* a message constructed at time ts
MessageAt(sender, receiver, ts) ==
    [AgentMessage(sender, receiver, TRUE, None) EXCEPT
        !.timestamp = ts, !.expires_at = ts + A2A_MESSAGE_TIMEOUT]

\* the log of a message delivered at once, and of one sent to no receiver
DeliveredLog ==
    [ret |-> "true", first |-> "ok", calls |-> 1, delivered |-> 1,
     delays |-> <<>>, archived |-> 0]

NoReceiverLog ==
    [ret |-> "false", first |-> "noreceiver", calls |-> 0, delivered |-> 0,
     delays |-> <<>>, archived |-> 1]

\* n messages were delivered to a1 and are the history; the messages of the
\* failed archive were sent to an unregistered receiver at the times of ts
InitReaper ==
    \E n \in HistoryLengths, k \in 0..MaxFailed :
    \E ts \in [1..k -> FailedTimestamps] :
        /\ now = FAILED_RETENTION + TickStep
        /\ registered_agents = [a \in BusAgents |-> AgentRegistration(None)]
        /\ msgs = [i \in 1..(n + k) |->
                      IF i <= n THEN MessageAt("cli", "a1", 0)
                      ELSE MessageAt("cli", "a2", ts[i - n])]
        /\ message_history = [i \in 1..n |-> i]
        /\ failed_messages = [i \in 1..k |-> n + i]
        /\ retry_threads = {}
        /\ stack = <<>>
        /\ log = [i \in 1..(n + k) |->
                     IF i <= n THEN DeliveredLog ELSE NoReceiverLog]
        /\ last_reject = NoReject
        /\ WorkersIdle

NextReaper ==
    \/ Tick(ReaperMaxTicks) /\ UNCHANGED worker_vars
    \/ cleanup_expired_messages /\ UNCHANGED worker_vars

SpecReaper == InitReaper /\ [][NextReaper]_vars

\* C27: after a pass of the cleanup task the history holds at most 1000
\* messages: a history of more than 1000 is cut to its 500 most recent
\* entries in their order, any other is left as it is; the failed archive
\* keeps, in their order, exactly its entries created within the last hour;
\* no registration or status changes.
C27_ReaperPass ==
    [][cleanup_expired_messages =>
        /\ Len(message_history') <= 1000
        /\ IF Len(message_history) > 1000
           THEN /\ Len(message_history') = 500
                /\ \A i \in 1..500 :
                       message_history'[i] =
                           message_history[Len(message_history) - 500 + i]
           ELSE message_history' = message_history
        /\ failed_messages' =
               SelectSeq(failed_messages,
                         LAMBDA id : now - msgs[id].timestamp <= 3600)
        /\ registered_agents' = registered_agents
        /\ msgs' = msgs /\ retry_threads' = retry_threads]_vars

\* a history of 1001 messages has been cut to the 500 most recent, and of
\* two failed messages the one created exactly an hour ago is kept, the one
\* created a period earlier is dropped
C27_Witness ==
    /\ Len(msgs) = 1003
    /\ Len(message_history) = 500
    /\ message_history[1] = 502 /\ message_history[500] = 1001
    /\ now - msgs[1002].timestamp > 3600
    /\ now - msgs[1003].timestamp = 3600
    /\ failed_messages = <<1003>>

-----------------------------------------------------------------------------
(* Correlation of the messages of the workers *)

\* the message a step has just sent, if it sent one
Sent == Len(msgs') = Len(msgs) + 1

\* the REQUEST whose receive_message is running
Handled == Last(stack).msg

\* C28: every RESPONSE or ERROR a worker sends in reply to a REQUEST is
\* addressed to the sender of that REQUEST and carries its message id as
\* correlation id; the rank REQUEST of Comparison carries as correlation id
\* the message id of the compare REQUEST that started the run.
C28_RepliesCorrelated ==
    [][Sent =>
        LET id == Len(msgs')
            m == msgs'[id]
            p == payloads'[id]
        IN /\ p.message_type \in {"RESPONSE", "ERROR"} =>
                  /\ InHandler
                  /\ payloads[Handled].message_type = "REQUEST"
                  /\ m.sender = msgs[Handled].receiver
                  /\ m.receiver = msgs[Handled].sender
                  /\ p.correlation_id = Some(Handled)
           /\ (/\ p.message_type = "REQUEST"
               /\ m.sender = "comparison_agent"
               /\ m.receiver = "ranking_agent") =>
                  /\ pipeline_run # None
                  /\ pipeline_run[1].agent = "comparison_agent"
                  /\ payloads[pipeline_run[1].first].task_data.action =
                         "compare_applications"
                  /\ msgs[pipeline_run[1].first].sender = "cli"
                  /\ p.correlation_id = Some(pipeline_run[1].first)]_vars

\* Comparison has answered the compare REQUEST of the caller, sent its rank
\* REQUEST, and Ranking has answered that one to Comparison
C28_Witness ==
    /\ pipeline_run # None
    /\ \E r1, q, r2 \in DOMAIN payloads :
        LET c == pipeline_run[1].first IN
        /\ payloads[c].task_data.action = "compare_applications"
        /\ payloads[r1].message_type = "RESPONSE"
        /\ msgs[r1].receiver = "cli"
        /\ payloads[r1].correlation_id = Some(c)
        /\ payloads[q].task_data.action = "rank_applications"
        /\ msgs[q].sender = "comparison_agent"
        /\ payloads[q].correlation_id = Some(c)
        /\ payloads[r2].message_type = "RESPONSE"
        /\ msgs[r2].sender = "ranking_agent"
        /\ msgs[r2].receiver = "comparison_agent"
        /\ payloads[r2].correlation_id = Some(q)

-----------------------------------------------------------------------------
(* The status of an agent after its handler has raised *)

\* C29: ERROR is sticky: once a handler exception has set the status of an
\* agent to ERROR, no delivery to it, no heartbeat and no pass of the monitor
\* leaves it with another status; an agent in ERROR is at most BUSY for the
\* time of a delivery, and has another status only after it is registered
\* again.
C29_ErrorSticky ==
    [][\A a \in DOMAIN registered_agents :
          (/\ registered_agents[a].status = "ERROR"
           /\ a \in DOMAIN registered_agents'
           /\ registered_agents'[a].status \notin {"ERROR", "BUSY"})
          => \E c \in CapabilityInputs : register_agent(a, c)]_vars

\* the handler of a message to an agent has raised while an earlier delivery
\* to that agent, which found it ACTIVE, has not returned yet
C29_Witness ==
    \E a \in DOMAIN registered_agents :
        /\ registered_agents[a].status = "ERROR"
        /\ \E i \in DOMAIN stack :
            /\ stack[i].op = "deliver"
            /\ stack[i].receiver = a
            /\ stack[i].old_status = "ACTIVE"
        /\ \E id \in DOMAIN log :
            /\ msgs[id].receiver = a
            /\ log[id].first = "raised"

-----------------------------------------------------------------------------
(* BUSY and the lock: handlers that send while they run, up to an agent that
   answers an agent in the middle of its own handler *)

\* SpecReentrant: ReentrantMaxMsgs messages are sent at most
ReentrantMaxMsgs == 3

NextReentrant ==
    \/ Tick(NestedMaxTicks) /\ UNCHANGED worker_vars
    \/ SendWellFormed(NestedAgents, ReentrantMaxMsgs) /\ UNCHANGED worker_vars
    \/ HandlerReturn /\ UNCHANGED worker_vars
    \/ HandlerRaise /\ UNCHANGED worker_vars
    \/ RetryFire /\ UNCHANGED worker_vars
    \/ Register(NestedAgents, {None}) /\ UNCHANGED worker_vars
    \/ BroadcastStep /\ UNCHANGED worker_vars
    \/ BroadcastDone /\ UNCHANGED worker_vars

SpecReentrant == Init /\ [][NextReentrant]_vars

\* the deliveries to agent a whose handlers have not returned, outermost first
FramesOf(a) ==
    SelectSeq(stack, LAMBDA f : f.op = "deliver" /\ f.receiver = a)

\* C30: whenever the lock is free no registered agent is BUSY; an agent is
\* BUSY only while a handler of its own is running, the outermost delivery to
\* it has saved a status other than BUSY, and every delivery nested in that
\* one has saved BUSY or ERROR, so that when the handlers have returned or
\* raised the agent has its earlier status or ERROR.
C30_NoBusyWhenLockFree ==
    \A a \in DOMAIN registered_agents :
        /\ LockFree => registered_agents[a].status # "BUSY"
        /\ registered_agents[a].status = "BUSY" => FramesOf(a) # <<>>
        /\ FramesOf(a) # <<>> =>
               /\ FramesOf(a)[1].old_status \in {"ACTIVE", "INACTIVE", "ERROR"}
               /\ \A i \in 2..Len(FramesOf(a)) :
                      FramesOf(a)[i].old_status \in {"BUSY", "ERROR"}

\* the lock is free after a handler of a1, made BUSY by a message from
\* outside, sent a message to a2, whose handler replied to a1 in the middle
\* of a1's handler; the three deliveries were made and a1 and a2 are ACTIVE
C30_Witness ==
    /\ LockFree
    /\ Len(msgs) >= 3
    /\ msgs[1].sender = "cli" /\ msgs[1].receiver = "a1"
    /\ msgs[2].sender = "a1" /\ msgs[2].receiver = "a2"
    /\ msgs[3].sender = "a2" /\ msgs[3].receiver = "a1"
    /\ \A id \in 1..3 : log[id].first = "ok" /\ log[id].delivered = 1
    /\ DOMAIN registered_agents = {"a1", "a2"}
    /\ \A a \in {"a1", "a2"} : registered_agents[a].status = "ACTIVE"
====
